---- MODULE Spec2Model ----
(***************************************************************************)
(* WordUp service worker (src/background/service-worker.js): the in-memory *)
(* LRU session cache, the persistent cache over chrome.storage.local, the  *)
(* rate limiter, logError, throttle, the configuration load,               *)
(* api.lookupMeaning and api.rewriteTone, as a state machine; next to it   *)
(* the content script and the selection card of one page.                  *)
(*                                                                         *)
(* Spec      lookupMeaning calls in progress together, collaborators that  *)
(*           do their work                                                 *)
(* SpecSeq   one caller, terms in both cases, collaborators that can fail  *)
(* SpecPacer the rate limiter on its own, time in half intervals           *)
(* SpecDrain the same, the timer callback and the clock fair               *)
(* SpecLinger   requests that return at once, added at any moment          *)
(* SpecLRU   the LRUCache class on its own                                 *)
(* SpecTwin  calls for one term in progress together, every awaited        *)
(*           operation settling in the end                                 *)
(* SpecRewrite  rewriteTone calls next to a lookup, the Gemini key changing *)
(* SpecBoot  the stored Gemini key, restarts and rewrites                  *)
(* SpecPage  one page, its card and the worker answering its messages      *)
(* SpecFaulty   one caller of lookups and rewrites, every collaborator     *)
(*           failing or settling in the end                                *)
(* SpecStatus   the status message next to lookups in progress together    *)
(* SpecSanitize sanitizeDictionaryResponse on its own                      *)
(* SpecLog   logError on its own                                           *)
(* SpecThrottle a throttle(fn, ms) wrapper on its own                      *)
(*                                                                         *)
(* Values of the program are records throughout; JavaScript null is Null.  *)
(* A JavaScript Map is the sequence of its entries in iteration order.     *)
(***************************************************************************)
EXTENDS Integers, Sequences, FiniteSets, TLC

VARIABLES
    sessionCache,   \* the LRUCache instance: [maxSize, cache]
    recency,        \* history: keys of sessionCache, least recently used first
    overwritten,    \* history: some set() hit a key that was already present
    lruOp,          \* history: the last LRUCache operation and what it did
    storage,        \* chrome.storage.local: key -> {value, expires} or NoItem
    rateLimiter,    \* [queue, isProcessing]
    timer,          \* the setInterval timer of processQueue: [active, due, set]
    errorLogs,      \* newest first
    pc,             \* where each lookupMeaning call stands
    text,           \* the argument of each call
    local,          \* what a call holds across its awaits
    effects,        \* history: what the call in a slot has done so far
    delivered,      \* the response resolved in this step, with the call's text and effects
    lastTerm,       \* history: text of the lookup that succeeded last, no call begun since
    disturbed,      \* history: another call changed a cache during the write-back
    faults,         \* history: collaborator failures injected so far
    added,          \* history: ids of the stub requests, in add() order
    invoked,        \* history: the stub requests invoked, each with the time
                    \* since the start of the invocation before it
    lastStart,      \* history: when the interval callback last invoked a stub request
    apiKeys,        \* config.apiKeys: [gemini]
    logCalls,       \* history: the number of logError calls made on their own
    rawData,        \* the argument of sanitizeDictionaryResponse called on its own
    sanitized,      \* what that call returned
    localApiKeys,   \* chrome.storage.local: the value under 'apiKeys', or Null
    page,           \* the content script and its card in one page
    throttled       \* a throttle(fn, ms) wrapper and the calls made of it

vars ==
    <<sessionCache, recency, overwritten, lruOp, storage, rateLimiter, timer,
      errorLogs, pc, text, local, effects, delivered, lastTerm, disturbed, faults,
      added, invoked, lastStart, apiKeys, logCalls, rawData, sanitized,
      localApiKeys, page, throttled>>

Null == [null |-> TRUE]

Truthy(x) == x # Null

(***************************************************************************)
(* JavaScript Map, as used by LRUCache: iteration order is insertion       *)
(* order, and set() on a key that is present keeps the key's position.     *)
(***************************************************************************)
MapKeys(m) == {m[i].key : i \in DOMAIN m}

MapHas(m, key) == key \in MapKeys(m)

MapIndex(m, key) == CHOOSE i \in DOMAIN m : m[i].key = key

MapGet(m, key) == m[MapIndex(m, key)].value

MapDelete(m, key) == SelectSeq(m, LAMBDA e : e.key # key)

MapSet(m, key, value) ==
    IF MapHas(m, key)
    THEN [m EXCEPT ![MapIndex(m, key)] = [key |-> key, value |-> value]]
    ELSE Append(m, [key |-> key, value |-> value])

MapOldestKey(m) == m[1].key

(***************************************************************************)
(* class LRUCache                                                          *)
(***************************************************************************)
NewLRUCache(maxSize) == [maxSize |-> maxSize, cache |-> <<>>]

\* get(key): the value returned, null on a miss
LRUGetValue(c, key) == IF MapHas(c.cache, key) THEN MapGet(c.cache, key) ELSE Null

\* the mutant of LRUGet: a hit deletes the key
LRUGetDrop(c, key) == [c EXCEPT !.cache = MapDelete(@, key)]

\* get(key): the cache afterwards; a hit deletes the key and sets it again
LRUGet(c, key) ==
    IF ~MapHas(c.cache, key)
    THEN c
    ELSE [c EXCEPT !.cache = MapSet(MapDelete(c.cache, key), key, MapGet(c.cache, key))]

\* the mutant of LRUSet: a full cache drops nothing
LRUSetNoEvict(c, key, value) == [c EXCEPT !.cache = MapSet(@, key, value)]

\* the mutant of LRUSet: nothing is stored
LRUSetSkip(c, key, value) == c

\* the mutant of LRUSet: a full cache drops its newest entry
LRUSetEvictNewest(c, key, value) ==
    LET evicted == IF Len(c.cache) >= c.maxSize /\ Len(c.cache) > 0
                   THEN MapDelete(c.cache, c.cache[Len(c.cache)].key)
                   ELSE c.cache
    IN  [c EXCEPT !.cache = MapSet(evicted, key, value)]

\* set(key, value): at capacity the first key of the Map is deleted, whether
\* or not `key` is present; then Map.set
LRUSet(c, key, value) ==
    LET evicted == IF Len(c.cache) >= c.maxSize /\ Len(c.cache) > 0
                   THEN MapDelete(c.cache, MapOldestKey(c.cache))
                   ELSE c.cache
    IN  [c EXCEPT !.cache = MapSet(evicted, key, value)]

LRUHas(c, key) == MapHas(c.cache, key)

(***************************************************************************)
(* History of the uses of the session cache's keys.  A use is an insertion *)
(* or a get hit; an evicted key leaves the history.                        *)
(***************************************************************************)
NoOp == [op |-> "none", key |-> "none", hit |-> FALSE]

\* what the next operation remembers of the one before it
Brief(o) == [op |-> o.op, key |-> o.key, hit |-> o.hit]

Touch(r, key) == Append(SelectSeq(r, LAMBDA k : k # key), key)

RecencyAfter(r, c) == SelectSeq(r, LAMBDA k : MapHas(c.cache, k))

(***************************************************************************)
(* config, the clock and logError.  Times are in milliseconds and are kept *)
(* relative to the present: Date.now() is 0, and when time passes every    *)
(* time the program holds moves into the past.                             *)
(***************************************************************************)
now == 0

\* config.apiBaseUrls, the endpoints the worker names
apiBaseUrls ==
    [dictionary |-> "https://api.dictionaryapi.dev/api/v2/entries/en/",
     dictionary_fallback |-> "https://api.example-fallback-dictionary.com/v1/",
     toneRewrite |-> "https://generativelanguage.googleapis.com/v1beta/models/gemini-2.5-flash:generateContent"]

\* config.cacheTTL: 7 days in milliseconds
cacheTTL == 7 * 24 * 60 * 60 * 1000

requestsPerSecond == 5

\* processQueue: const interval = 1000 / this.requestsPerSecond
interval == 1000 \div requestsPerSecond

maxLogSize == 100

\* the mutant of logError: a full log keeps what it has
logErrorKeepsOldest(logs, source, error) ==
    IF Len(logs) >= maxLogSize
    THEN logs
    ELSE <<[source |-> source, error |-> error]>> \o logs

\* the mutant of logError: nothing is recorded
logErrorNothing(logs, source, error) == logs

\* logError(source, details): unshift the record, pop the oldest beyond maxLogSize
logError(logs, source, error) ==
    LET grown == <<[source |-> source, error |-> error]>> \o logs
    IN  IF Len(grown) > maxLogSize THEN SubSeq(grown, 1, Len(grown) - 1) ELSE grown

(***************************************************************************)
(* rateLimiter.  A request is a record naming the closure that was added.  *)
(* The timer is the one setInterval of processQueue: its callback runs     *)
(* when the timer is due or later.  How the runtime places the repetition  *)
(* is not the program's choice, and both placements are followed.          *)
(***************************************************************************)
\* `set` is history: the timers processQueue has set with setInterval and the
\* callback has not cleared
NoTimer == [active |-> FALSE, due |-> 0, set |-> 0]

\* when a repeating timer whose run was due at `due` is due next, its callback
\* having run now: `interval` after this run (HTML timer initialisation steps),
\* or on the next beat of the grid the timer was set on (drift-free repetition)
NextDue(due) == {now + interval, now + interval - ((now - due) % interval)}

NewRateLimiter == [queue |-> <<>>, isProcessing |-> FALSE]

\* processQueue(): the rate limiter afterwards
ProcessQueue(rl) ==
    IF rl.isProcessing \/ Len(rl.queue) = 0
    THEN rl
    ELSE [rl EXCEPT !.isProcessing = TRUE]

\* the mutant of ProcessQueueTimer: isProcessing is not looked at
ProcessQueueTimerUnguarded(rl, tm, t) ==
    IF Len(rl.queue) = 0
    THEN tm
    ELSE [active |-> TRUE, due |-> t + interval, set |-> tm.set + 1]

\* processQueue(): the timer afterwards; setInterval only past the early return
ProcessQueueTimer(rl, tm, t) ==
    IF rl.isProcessing \/ Len(rl.queue) = 0
    THEN tm
    ELSE [active |-> TRUE, due |-> t + interval, set |-> tm.set + 1]

\* the mutant of StopProcessing: the flag stays set
StopProcessingForgets(rl) == rl

\* line 107: this.isProcessing = false
StopProcessing(rl) == [rl EXCEPT !.isProcessing = FALSE]

\* the mutant of ClearInterval: the timer is left running
ClearIntervalKeeps(tm) == tm

\* clearInterval(timerId): the timer whose callback is running is cleared
ClearInterval(tm) == IF tm.set > 1 THEN [tm EXCEPT !.set = @ - 1] ELSE NoTimer

\* the mutant of RateLimiterAdd: a request of a kind that is waiting already
\* is not added again
RateLimiterAddOnce(rl, request) ==
    IF \E i \in DOMAIN rl.queue : rl.queue[i].kind = request.kind
    THEN rl
    ELSE ProcessQueue([rl EXCEPT !.queue = Append(@, request)])

\* add(request): push, then processQueue()
RateLimiterAdd(rl, request) == ProcessQueue([rl EXCEPT !.queue = Append(@, request)])

RateLimiterAddTimer(rl, tm, request, t) ==
    ProcessQueueTimer([rl EXCEPT !.queue = Append(@, request)], tm, t)

(***************************************************************************)
(* api.sanitizeDictionaryResponse.  The raw JSON is [isArray, items]; an   *)
(* absent string is Undefined, an absent array is <<>>.                    *)
(***************************************************************************)
Undefined == "undefined"

Falsy(str) == str \in {Undefined, ""}

NotArray == [isArray |-> FALSE, items |-> <<>>]

JsonArray(items) == [isArray |-> TRUE, items |-> items]

\* Set.add over a sequence: insertion order, no duplicates
RECURSIVE AddAll(_, _)
AddAll(acc, items) ==
    IF items = <<>>
    THEN acc
    ELSE AddAll(IF \E i \in DOMAIN acc : acc[i] = Head(items)
                THEN acc
                ELSE Append(acc, Head(items)),
                Tail(items))

\* the mutant of CollectSynonyms: the synonyms of the first group
CollectSynonymsFirstGroup(acc, meanings) ==
    IF meanings = <<>> THEN acc ELSE AddAll(acc, Head(meanings).synonyms)

RECURSIVE CollectSynonyms(_, _)
CollectSynonyms(acc, meanings) ==
    IF meanings = <<>>
    THEN acc
    ELSE CollectSynonyms(AddAll(acc, Head(meanings).synonyms), Tail(meanings))

RECURSIVE CollectAntonyms(_, _)
CollectAntonyms(acc, meanings) ==
    IF meanings = <<>>
    THEN acc
    ELSE CollectAntonyms(AddAll(acc, Head(meanings).antonyms), Tail(meanings))

\* the mutant of FirstDefinition: the first definition of any group
FirstDefinitionAnyGroup(firstResult) ==
    IF \E i \in DOMAIN firstResult.meanings : firstResult.meanings[i].definitions # <<>>
    THEN firstResult.meanings[
             CHOOSE i \in DOMAIN firstResult.meanings :
                 /\ firstResult.meanings[i].definitions # <<>>
                 /\ \A j \in 1..(i - 1) : firstResult.meanings[j].definitions = <<>>
         ].definitions[1].definition
    ELSE Undefined

\* firstResult.meanings?.[0]?.definitions?.[0]?.definition
FirstDefinition(firstResult) ==
    IF firstResult.meanings = <<>>
    THEN Undefined
    ELSE IF firstResult.meanings[1].definitions = <<>>
         THEN Undefined
         ELSE firstResult.meanings[1].definitions[1].definition

\* firstResult.phonetic || firstResult.phonetics?.find(p => p.text)?.text
Phonetic(firstResult) ==
    IF ~Falsy(firstResult.phonetic)
    THEN firstResult.phonetic
    ELSE IF \E i \in DOMAIN firstResult.phonetics : ~Falsy(firstResult.phonetics[i].text)
         THEN firstResult.phonetics[
                  CHOOSE i \in DOMAIN firstResult.phonetics :
                      /\ ~Falsy(firstResult.phonetics[i].text)
                      /\ \A j \in 1..(i - 1) : Falsy(firstResult.phonetics[j].text)].text
         ELSE Undefined

sanitizeDictionaryResponse(data) ==
    IF ~data.isArray \/ Len(data.items) = 0
    THEN Null
    ELSE LET firstResult == data.items[1]
             meaning == FirstDefinition(firstResult)
         IN  IF Falsy(meaning)
             THEN Null
             ELSE [word |-> firstResult.word,
                   phonetic |-> Phonetic(firstResult),
                   meaning |-> meaning,
                   synonyms |-> CollectSynonyms(<<>>, firstResult.meanings),
                   antonyms |-> CollectAntonyms(<<>>, firstResult.meanings)]

\* sanitizeDictionaryResponse has not been called
NotRun == [notRun |-> TRUE]

(***************************************************************************)
(* Lookup terms and cache keys                                             *)
(***************************************************************************)
\* String.prototype.toLowerCase, letter by letter
LowerChar(ch) ==
    CASE ch = "H" -> "h"
      [] ch = "I" -> "i"
      [] ch = "Y" -> "y"
      [] ch = "O" -> "o"
      [] OTHER -> ch

\* the mutant of toLowerCase: the string as it is
toLowerCaseKept(str) == str

toLowerCase(str) == [i \in DOMAIN str |-> LowerChar(str[i])]

\* history: two terms differ in the case of their letters at most
EqualUpToCase(a, b) ==
    /\ Len(a) = Len(b)
    /\ \A i \in DOMAIN a : LowerChar(a[i]) = LowerChar(b[i])

\* const cacheKey = `meaning_${text.toLowerCase()}`
CacheKey(str) == <<"meaning_">> \o toLowerCase(str)

Terms == {<<"H", "i">>, <<"h", "i">>, <<"y", "o">>}

\* the terms that are in lower case already
LowerTerms == {t \in Terms : toLowerCase(t) = t}

Keys == {CacheKey(t) : t \in Terms}

(***************************************************************************)
(* The collaborators: chrome.storage.local, fetch, the clock               *)
(***************************************************************************)
NoItem == [noItem |-> TRUE]

\* the upstream's answers to fetch(dictionary + text) and response.json()
Entry(word, definitions, synonyms) ==
    [word |-> word, phonetic |-> Undefined, phonetics |-> <<>>,
     meanings |-> <<[definitions |-> definitions, synonyms |-> synonyms,
                     antonyms |-> <<>>]>>]

\* a meaning group of an entry
Group(definitions, synonyms, antonyms) ==
    [definitions |-> definitions, synonyms |-> synonyms, antonyms |-> antonyms]

\* an entry with the meaning groups given
EntryOf(word, meanings) ==
    [word |-> word, phonetic |-> Undefined, phonetics |-> <<>>, meanings |-> meanings]

\* a definition in the first group; no definition at all; no definition in
\* the first group and one in the second; an empty first definition; no entry
RawResponses(str) ==
    { JsonArray(<<Entry(str, <<[definition |-> "A greeting"]>>, <<"hi">>)>>),
      JsonArray(<<Entry(str, <<>>, <<"hi">>)>>),
      JsonArray(<<EntryOf(str, <<Group(<<>>, <<"hi">>, <<>>),
                                 Group(<<[definition |-> "A greeting"]>>, <<>>, <<>>)>>)>>),
      JsonArray(<<Entry(str, <<[definition |-> ""]>>, <<"hi">>)>>),
      JsonArray(<<>>) }

\* what makes the try block of the fetch throw: fetch rejects, response.ok is
\* false, response.json() rejects
FetchFailures == {"network", "http", "json"}

\* the message of the Error the catch block logs
ErrorMessage(kind) ==
    CASE kind = "network" -> "Failed to fetch"
      [] kind = "http" -> "HTTP error! status"
      [] OTHER -> "Unexpected token"

MaxFaults == 1

\* a stored item is followed for MaxAge timer intervals of its life, or until
\* a whole time-to-live has passed
MaxAge == 2

\* a time that lies this far back is not moved further: what is a whole timer
\* interval in the past stays so
Past == now - interval

\* the time t, d later
Later(t, d) == IF t - d < Past THEN Past ELSE t - d

ItemLater(item, d) ==
    IF item = NoItem
    THEN item
    ELSE [item EXCEPT !.expires = Later(@, d),
                      !.written = Later(@ + cacheTTL, d) - cacheTTL]

\* a timer that is overdue keeps how far it is off its beat
TimerLater(tm, d) ==
    IF ~tm.active
    THEN tm
    ELSE IF tm.due - d >= now
         THEN [tm EXCEPT !.due = @ - d]
         ELSE [tm EXCEPT !.due = now - ((now + d - @) % interval)]

\* history: the start of the last stub invocation, followed for two intervals
StartLater(t, d) ==
    IF invoked = <<>> \/ t - d < now - 2 * interval THEN now - 2 * interval ELSE t - d

Young(item, d) ==
    IF item = NoItem
    THEN TRUE
    ELSE item.expires <= now \/ item.expires - d >= now + cacheTTL - MaxAge * interval

(***************************************************************************)
(* api.lookupMeaning, one action per stretch between two awaits.  Procs    *)
(* are the calls that can be in progress at once; a call takes the lowest  *)
(* free slot and frees it when it resolves.                                *)
(***************************************************************************)
Procs == 1..2

SessionCap == 2

\* item: what the storage read gave; pending: the item persistentCache.set
\* has built and handed to chrome.storage.local.set
NoLocal == [item |-> NoItem, failed |-> FALSE, pending |-> NoItem]

NoResult == [success |-> FALSE, error |-> "none"]

NoEffects == [reads |-> 0, removes |-> 0, enqueues |-> 0, fetches |-> 0,
              sessionSets |-> 0, storeSets |-> 0, storeFailed |-> FALSE,
              disturbed |-> FALSE, repeat |-> FALSE, url |-> <<>>, body |-> <<>>,
              response |-> Null]

NoDelivery == [call |-> "none", text |-> <<>>, result |-> NoResult, effects |-> NoEffects]

NoTerm == <<>>

\* the mutant of DictionaryUrl: the fallback endpoint
FallbackUrl(str) == <<apiBaseUrls.dictionary_fallback>> \o str

\* line 183: `${config.apiBaseUrls.dictionary}${text}`
DictionaryUrl(str) == <<apiBaseUrls.dictionary>> \o str

LookupRequest(p) == [kind |-> "lookup", proc |-> p]

StubRequest(id) == [kind |-> "stub", id |-> id]

InFlight(p) == pc[p] \in {"fetching", "pset_issued", "pset_ready"}

\* the entries of the session cache, whatever their order
Entries(c) == {c.cache[i] : i \in DOMAIN c.cache}

\* the values chrome.storage.local holds, whatever their times
StoredValues(st) ==
    [k \in Keys |-> IF st[k] = NoItem THEN NoItem ELSE [value |-> st[k].value]]

\* history: while call p waits for its persistent write, a step that was not
\* its own changed the entries of the session cache or the stored values
Disturbance ==
    disturbed' =
        [p \in Procs |->
            IF pc[p] \notin {"pset_issued", "pset_ready"} \/ pc'[p] = "idle"
            THEN FALSE
            ELSE IF /\ pc'[p] = pc[p]
                    /\ \/ Entries(sessionCache') # Entries(sessionCache)
                       \/ StoredValues(storage') # StoredValues(storage)
                 THEN TRUE
                 ELSE disturbed[p]]

\* the history a step of the worker keeps
History ==
    /\ Disturbance
    /\ UNCHANGED <<recency, overwritten, lruOp, apiKeys, logCalls, rawData, sanitized,
                   localApiKeys, page, throttled>>

\* a step that resolves no call delivers nothing
Quiet == delivered' = NoDelivery /\ UNCHANGED lastTerm /\ History

\* a step of a call that does not resolve it
CallQuiet == Quiet /\ UNCHANGED <<added, invoked, lastStart>>

\* the promise of call p resolves with res: the response is delivered
Resolve(p, str, res, eff) ==
    /\ delivered' = [call |-> "lookupMeaning", text |-> str, result |-> res,
                     effects |-> [eff EXCEPT !.disturbed = disturbed[p]]]
    /\ lastTerm' = IF res.success THEN str ELSE NoTerm
    /\ pc' = [pc EXCEPT ![p] = "idle"]
    /\ text' = [text EXCEPT ![p] = <<>>]
    /\ local' = [local EXCEPT ![p] = NoLocal]
    /\ effects' = [effects EXCEPT ![p] = NoEffects]
    /\ History
    /\ UNCHANGED <<added, invoked, lastStart>>

\* lines 162-169: the session-cache check, then the persistent read is issued
LookupMeaning(p, str) ==
    LET cacheKey == CacheKey(str)
        data == LRUGetValue(sessionCache, cacheKey)
        repeat == lastTerm # NoTerm /\ EqualUpToCase(lastTerm, str)
    IN  /\ pc[p] = "idle"
        /\ \A q \in Procs : q < p => pc[q] # "idle"
        /\ sessionCache' = LRUGet(sessionCache, cacheKey)
        /\ UNCHANGED <<storage, rateLimiter, timer, errorLogs, faults>>
        /\ IF Truthy(data)
           THEN Resolve(p, str, [success |-> TRUE, data |-> data, source |-> "session"],
                        [NoEffects EXCEPT !.repeat = repeat])
           ELSE /\ pc' = [pc EXCEPT ![p] = "pget_issued"]
                /\ text' = [text EXCEPT ![p] = str]
                /\ effects' = [effects EXCEPT ![p] =
                                 [NoEffects EXCEPT !.reads = 1, !.repeat = repeat]]
                /\ delivered' = NoDelivery
                /\ lastTerm' = NoTerm
                /\ UNCHANGED <<local, added, invoked, lastStart>>
                /\ History

\* chrome.storage.local.get(key) is served: the call gets the item as it is now
StorageGet(p) ==
    /\ pc[p] = "pget_issued"
    /\ pc' = [pc EXCEPT ![p] = "pget_ready"]
    /\ local' = [local EXCEPT ![p].item = storage[CacheKey(text[p])]]
    /\ UNCHANGED <<sessionCache, storage, rateLimiter, timer, errorLogs, text,
                   effects, faults>>
    /\ CallQuiet

\* chrome.storage.local.get(key) rejects
StorageGetFails(p) ==
    /\ pc[p] = "pget_issued"
    /\ faults < MaxFaults
    /\ faults' = faults + 1
    /\ pc' = [pc EXCEPT ![p] = "pget_ready"]
    /\ local' = [local EXCEPT ![p].failed = TRUE]
    /\ UNCHANGED <<sessionCache, storage, rateLimiter, timer, errorLogs, text,
                   effects>>
    /\ CallQuiet

\* lines 176-177 and 111-114: new Promise, rateLimiter.add(the closure)
Enqueue(p) ==
    /\ rateLimiter' = RateLimiterAdd(rateLimiter, LookupRequest(p))
    /\ timer' = RateLimiterAddTimer(rateLimiter, timer, LookupRequest(p), now)
    /\ pc' = [pc EXCEPT ![p] = "queued"]
    /\ local' = [local EXCEPT ![p] = NoLocal]
    /\ effects' = [effects EXCEPT ![p].enqueues = @ + 1]
    /\ UNCHANGED <<sessionCache, text>>
    /\ CallQuiet

\* the mutant of Expired: an item expires at its time of expiry
ExpiredAtExpiry(item) == now >= item.expires

\* line 70: if (Date.now() > item.expires)
Expired(item) == now > item.expires

\* lines 66-78 and 170-177: persistentCache.get resumes after the read
PersistentGetResumes(p) ==
    LET cacheKey == CacheKey(text[p])
        item == local[p].item
    IN  /\ pc[p] = "pget_ready"
        /\ UNCHANGED <<storage, faults>>
        /\ IF local[p].failed
           THEN \* catch: logError, return null; data is null, on to the API
                /\ errorLogs' = logError(errorLogs, "persistentCache.get", "storage")
                /\ Enqueue(p)
           ELSE IF item = NoItem
           THEN \* if (!result[key]) return null
                /\ Enqueue(p)
                /\ UNCHANGED errorLogs
           ELSE IF Expired(item)
           THEN \* await chrome.storage.local.remove(key)
                /\ pc' = [pc EXCEPT ![p] = "premove_issued"]
                /\ effects' = [effects EXCEPT ![p].removes = @ + 1]
                /\ UNCHANGED <<sessionCache, text, local, errorLogs, rateLimiter, timer>>
                /\ CallQuiet
           ELSE \* return item.value; hydrate the session cache
                /\ sessionCache' = LRUSet(sessionCache, cacheKey, item.value)
                /\ Resolve(p, text[p],
                           [success |-> TRUE, data |-> item.value, source |-> "persistent"],
                           [effects[p] EXCEPT !.sessionSets = @ + 1])
                /\ UNCHANGED <<errorLogs, rateLimiter, timer>>

\* chrome.storage.local.remove(key) is served
StorageRemove(p) ==
    /\ pc[p] = "premove_issued"
    /\ storage' = [storage EXCEPT ![CacheKey(text[p])] = NoItem]
    /\ pc' = [pc EXCEPT ![p] = "premove_ready"]
    /\ UNCHANGED <<sessionCache, rateLimiter, timer, errorLogs, text, local,
                   effects, faults>>
    /\ CallQuiet

\* chrome.storage.local.remove(key) rejects
StorageRemoveFails(p) ==
    /\ pc[p] = "premove_issued"
    /\ faults < MaxFaults
    /\ faults' = faults + 1
    /\ pc' = [pc EXCEPT ![p] = "premove_ready"]
    /\ local' = [local EXCEPT ![p].failed = TRUE]
    /\ UNCHANGED <<sessionCache, storage, rateLimiter, timer, errorLogs, text,
                   effects>>
    /\ CallQuiet

\* lines 72 and 75-77, then 176-177: persistentCache.get returns null after the
\* removal (or after logging its failure), and the lookup goes on to the API
PersistentGetExpired(p) ==
    /\ pc[p] = "premove_ready"
    /\ errorLogs' = IF local[p].failed
                    THEN logError(errorLogs, "persistentCache.get", "storage")
                    ELSE errorLogs
    /\ UNCHANGED <<storage, faults>>
    /\ Enqueue(p)

\* the mutant of QueueShift: the request added last is taken
QueueShiftLast(queue) ==
    [request |-> queue[Len(queue)], rest |-> SubSeq(queue, 1, Len(queue) - 1)]

\* queue.shift(): the request taken and the queue left
QueueShift(queue) == [request |-> Head(queue), rest |-> Tail(queue)]

\* what request() does in the callback: it returns (a lookup closure is an
\* async function whose body catches, and returns its promise), it throws, or
\* it returns a promise that rejects
RequestOutcomes(request) ==
    IF request.kind = "stub" THEN {"returns", "throws", "rejects"} ELSE {"returns"}

\* the mutant of TimerAfterRequest: a request that fails ends the timer
TimerStoppedByFailure(outcome, tm) ==
    IF outcome = "returns"
    THEN {[tm EXCEPT !.due = d] : d \in NextDue(tm.due)}
    ELSE {NoTimer}

\* the timer once its callback has called request(): nothing wraps the call
\* and nothing clears the timer, so setInterval repeats whatever the call did
TimerAfterRequest(outcome, tm) == {[tm EXCEPT !.due = d] : d \in NextDue(tm.due)}

\* lines 101-109: the setInterval callback.  request() runs the closure up to
\* its first await: a lookup closure has called fetch, a stub has run.
IntervalCallback ==
    /\ timer.active
    /\ now >= timer.due
    /\ IF Len(rateLimiter.queue) > 0
       THEN LET request == QueueShift(rateLimiter.queue).request
            IN  /\ rateLimiter' = [rateLimiter EXCEPT
                                     !.queue = QueueShift(rateLimiter.queue).rest]
                /\ \E outcome \in RequestOutcomes(request) :
                     /\ timer' \in TimerAfterRequest(outcome, timer)
                     /\ IF request.kind = "lookup"
                        THEN /\ pc' = [pc EXCEPT ![request.proc] = "fetching"]
                             /\ effects' = [effects EXCEPT
                                               ![request.proc].fetches = @ + 1,
                                               ![request.proc].url =
                                                   DictionaryUrl(text[request.proc])]
                             /\ UNCHANGED <<invoked, lastStart>>
                        ELSE /\ invoked' = Append(invoked, [id |-> request.id,
                                                           gap |-> now - lastStart,
                                                           outcome |-> outcome])
                             /\ lastStart' = now
                             /\ UNCHANGED <<pc, effects>>
       ELSE \* clearInterval(timerId); this.isProcessing = false
            /\ rateLimiter' = StopProcessing(rateLimiter)
            /\ timer' = ClearInterval(timer)
            /\ UNCHANGED <<pc, effects, invoked, lastStart>>
    /\ UNCHANGED <<sessionCache, storage, errorLogs, text, local, faults, added>>
    /\ Quiet

\* lines 182-205: the try block throws; the catch logs, responseData stays
\* null and the closure resolves with the failure
FetchFails(p, kind) ==
    /\ pc[p] = "fetching"
    /\ faults < MaxFaults
    /\ faults' = faults + 1
    /\ errorLogs' = logError(errorLogs, "api.lookupMeaning (Primary)", ErrorMessage(kind))
    /\ UNCHANGED <<sessionCache, storage, rateLimiter, timer>>
    /\ Resolve(p, text[p], [success |-> FALSE, error |-> "Failed to fetch definition."],
               effects[p])

\* lines 182-212: fetch and response.json() have settled with the body `raw`;
\* the closure runs up to the await of persistentCache.set, or resolves with
\* the failure
FetchSettles(p, raw) ==
    LET cacheKey == CacheKey(text[p])
        responseData == sanitizeDictionaryResponse(raw)
    IN  /\ pc[p] = "fetching"
        /\ UNCHANGED <<storage, rateLimiter, timer, faults, errorLogs>>
        /\ IF Truthy(responseData)
           THEN /\ sessionCache' = LRUSet(sessionCache, cacheKey, responseData)
                \* persistentCache.set: const expires = Date.now() + config.cacheTTL;
                \* `written` is history: the Date.now() the expiry was computed from
                /\ local' = [local EXCEPT ![p] =
                               [NoLocal EXCEPT !.pending =
                                   [value |-> responseData,
                                    expires |-> now + cacheTTL,
                                    written |-> now]]]
                /\ pc' = [pc EXCEPT ![p] = "pset_issued"]
                /\ effects' = [effects EXCEPT ![p].sessionSets = @ + 1,
                                              ![p].storeSets = @ + 1,
                                              ![p].response = raw]
                /\ UNCHANGED text
                /\ CallQuiet
           ELSE /\ UNCHANGED sessionCache
                /\ Resolve(p, text[p],
                           [success |-> FALSE, error |-> "Failed to fetch definition."],
                           [effects[p] EXCEPT !.response = raw])

\* the mutant of StorageSet: the write is acknowledged and not made
StorageSetDropped(p) ==
    /\ pc[p] = "pset_issued"
    /\ pc' = [pc EXCEPT ![p] = "pset_ready"]
    /\ UNCHANGED <<sessionCache, storage, rateLimiter, timer, errorLogs, text, local,
                   effects, faults>>
    /\ CallQuiet

\* chrome.storage.local.set({[key]: {value, expires}}) is served
StorageSet(p) ==
    /\ pc[p] = "pset_issued"
    /\ storage' = [storage EXCEPT ![CacheKey(text[p])] = local[p].pending]
    /\ pc' = [pc EXCEPT ![p] = "pset_ready"]
    /\ UNCHANGED <<sessionCache, rateLimiter, timer, errorLogs, text, local,
                   effects, faults>>
    /\ CallQuiet

\* chrome.storage.local.set rejects
StorageSetFails(p) ==
    /\ pc[p] = "pset_issued"
    /\ faults < MaxFaults
    /\ faults' = faults + 1
    /\ pc' = [pc EXCEPT ![p] = "pset_ready"]
    /\ local' = [local EXCEPT ![p].failed = TRUE]
    /\ UNCHANGED <<sessionCache, storage, rateLimiter, timer, errorLogs, text,
                   effects>>
    /\ CallQuiet

\* lines 84-86 and 209: persistentCache.set returns (having logged a failed
\* write), and the closure resolves the lookup
PersistentSetResumes(p) ==
    /\ pc[p] = "pset_ready"
    /\ errorLogs' = IF local[p].failed
                    THEN logError(errorLogs, "persistentCache.set", "storage")
                    ELSE errorLogs
    /\ UNCHANGED <<sessionCache, storage, rateLimiter, timer, faults>>
    /\ Resolve(p, text[p],
               [success |-> TRUE, type |-> "definition", data |-> local[p].pending.value,
                source |-> "api"],
               [effects[p] EXCEPT !.storeFailed = local[p].failed])

(***************************************************************************)
(* api.rewriteTone.  A call takes a slot as a lookup does.  Messages and   *)
(* texts are sequences of their parts, so that split and trim are          *)
(* computed; a part " " is white space.                                    *)
(***************************************************************************)
\* config.apiKeys.gemini: null, as a string among the strings a key can be
NoKey == "null"

GeminiKeys == {"", "AIza"}

Tones == {"formal", "casual"}

\* the mutant of KeyMissing: only null counts as not configured
KeyIsNull(key) == key = NoKey

\* line 242: !config.apiKeys.gemini
KeyMissing(key) == key \in {NoKey, ""}

\* line 248
ToneRewriteUrl(key) == <<apiBaseUrls.toneRewrite, "?key=", key>>

\* line 249
Prompt(str, tone) ==
    <<"Rewrite the following text in a ", tone, " tone. Original text: ">> \o str

\* what fetch(url, ...) and response.json() can give: fetch rejects; or a
\* response with `ok`, a body that parses (`json`) or not, in the body the
\* message of error.message, the text of the first candidate's first part,
\* promptFeedback.blockReason
Response(rejects, ok, json, message, candidate, blockReason) ==
    [rejects |-> rejects, ok |-> ok, json |-> json, message |-> message,
     candidate |-> candidate, blockReason |-> blockReason]

GeminiResponses ==
    { Response(TRUE, FALSE, FALSE, <<>>, <<>>, Undefined),
      Response(FALSE, FALSE, TRUE,
               <<"API key not valid. Please pass a valid", " API key", ".">>,
               <<>>, Undefined),
      Response(FALSE, FALSE, TRUE, <<>>, <<>>, Undefined),
      Response(FALSE, FALSE, FALSE, <<>>, <<>>, Undefined),
      Response(FALSE, TRUE, FALSE, <<>>, <<>>, Undefined),
      Response(FALSE, TRUE, TRUE, <<>>, <<" ", "Hello", " ">>, Undefined),
      Response(FALSE, TRUE, TRUE, <<>>, <<" ">>, Undefined),
      Response(FALSE, TRUE, TRUE, <<>>, <<>>, "SAFETY"),
      Response(FALSE, TRUE, TRUE, <<>>, <<>>, Undefined) }

\* message.split(' API key')[0]
RECURSIVE SplitFirst(_, _)
SplitFirst(message, separator) ==
    IF message = <<>> \/ Head(message) = separator
    THEN <<>>
    ELSE <<Head(message)>> \o SplitFirst(Tail(message), separator)

\* String.prototype.trim
RECURSIVE TrimStart(_)
TrimStart(str) ==
    IF str # <<>> /\ Head(str) = " " THEN TrimStart(Tail(str)) ELSE str

RECURSIVE TrimEnd(_)
TrimEnd(str) ==
    IF str # <<>> /\ str[Len(str)] = " "
    THEN TrimEnd(SubSeq(str, 1, Len(str) - 1))
    ELSE str

Trim(str) == TrimEnd(TrimStart(str))

\* the mutant of RewriteFailure: the failure carries no error
RewriteFailureBare(message) == [success |-> FALSE]

RewriteFailure(message) == [success |-> FALSE, error |-> message]

\* lines 251-295: what the call returns once the fetch has settled
RewriteResult(response) ==
    IF response.rejects
    THEN RewriteFailure(<<"Failed to fetch">>)
    ELSE IF ~response.ok
    THEN IF response.json /\ response.message # <<>>
         THEN RewriteFailure(SplitFirst(response.message, " API key"))
         ELSE RewriteFailure(<<"HTTP error! status">>)
    ELSE IF ~response.json
    THEN RewriteFailure(<<"Unexpected token">>)
    ELSE IF response.candidate = <<>>
    THEN IF ~Falsy(response.blockReason)
         THEN RewriteFailure(<<"Content blocked by API: ", response.blockReason>>)
         ELSE RewriteFailure(<<"Invalid response structure from Gemini API.">>)
    ELSE [success |-> TRUE, type |-> "rewritten", data |-> Trim(response.candidate)]

\* the error log is followed up to MaxLogged records of rewriteTone
MaxLogged == 1

\* the promise of rewriteTone call p resolves with res
ResolveRewrite(p, str, res, eff) ==
    /\ delivered' = [call |-> "rewriteTone", text |-> str, result |-> res,
                     effects |-> eff]
    /\ pc' = [pc EXCEPT ![p] = "idle"]
    /\ text' = [text EXCEPT ![p] = <<>>]
    /\ local' = [local EXCEPT ![p] = NoLocal]
    /\ effects' = [effects EXCEPT ![p] = NoEffects]
    /\ UNCHANGED <<lastTerm, added, invoked, lastStart>>
    /\ History

\* lines 242-262: the credential check, then fetch is called
RewriteTone(p, str, tone) ==
    /\ pc[p] = "idle"
    /\ \A q \in Procs : q < p => pc[q] # "idle"
    /\ UNCHANGED <<sessionCache, storage, rateLimiter, timer, faults>>
    /\ IF KeyMissing(apiKeys.gemini)
       THEN /\ Len(errorLogs) < MaxLogged
            /\ errorLogs' = logError(errorLogs, "api.rewriteTone",
                                     <<"Gemini API key is not configured.">>)
            /\ ResolveRewrite(p, str,
                              RewriteFailure(<<"Gemini API key is not configured.">>),
                              NoEffects)
       ELSE /\ pc' = [pc EXCEPT ![p] = "rw_fetching"]
            /\ text' = [text EXCEPT ![p] = str]
            /\ effects' = [effects EXCEPT ![p] =
                             [NoEffects EXCEPT !.fetches = 1,
                                               !.url = ToneRewriteUrl(apiKeys.gemini),
                                               !.body = Prompt(str, tone)]]
            /\ UNCHANGED <<errorLogs, local>>
            /\ CallQuiet

\* the mutant of RewriteSettles: a rewritten text is kept in the session cache
RewriteSettlesCaching(p, response) ==
    LET res == RewriteResult(response)
    IN  /\ pc[p] = "rw_fetching"
        /\ res.success
        /\ sessionCache' = LRUSet(sessionCache, <<"rewrite_">> \o text[p], res.data)
        /\ UNCHANGED <<errorLogs, storage, rateLimiter, timer, faults>>
        /\ ResolveRewrite(p, text[p], res, effects[p])

\* lines 264-295: the fetch has settled; the call returns the rewritten
\* text, or logs the error it has thrown and returns the failure
RewriteSettles(p, response) ==
    LET res == RewriteResult(response)
    IN  /\ pc[p] = "rw_fetching"
        /\ res.success \/ Len(errorLogs) < MaxLogged
        /\ errorLogs' = IF res.success
                        THEN errorLogs
                        ELSE logError(errorLogs, "api.rewriteTone", res.error)
        /\ UNCHANGED <<sessionCache, storage, rateLimiter, timer, faults>>
        /\ ResolveRewrite(p, text[p], res, effects[p])

\* lines 385-389 and 401-405: Object.assign(config.apiKeys, {gemini: key}),
\* when the stored keys are loaded or change
ApiKeysAssigned(key) ==
    /\ apiKeys' = [apiKeys EXCEPT !.gemini = key]
    /\ delivered' = NoDelivery
    /\ UNCHANGED <<sessionCache, storage, rateLimiter, timer, errorLogs, pc, text,
                   local, effects, lastTerm, faults, added, invoked, lastStart>>
    /\ Disturbance
    /\ UNCHANGED <<recency, overwritten, lruOp, logCalls, rawData, sanitized,
                   localApiKeys, page, throttled>>

\* the options page saves the key (options.js, saveSettings), and the
\* onChanged listener of lines 399-408 assigns it to config.apiKeys
KeySaved(key) ==
    /\ localApiKeys' = [gemini |-> key]
    /\ apiKeys' = [apiKeys EXCEPT !.gemini = key]
    /\ delivered' = NoDelivery
    /\ UNCHANGED <<sessionCache, storage, rateLimiter, timer, errorLogs, pc, text,
                   local, effects, lastTerm, faults, added, invoked, lastStart>>
    /\ Disturbance
    /\ UNCHANGED <<recency, overwritten, lruOp, logCalls, rawData, sanitized,
                   page, throttled>>

\* lines 384-388: the callback of chrome.storage.local.get(['apiKeys']) that
\* loadConfiguration has asked for when the worker started
ConfigLoaded ==
    /\ Truthy(localApiKeys)
    /\ apiKeys' = [apiKeys EXCEPT !.gemini = localApiKeys.gemini]
    /\ delivered' = NoDelivery
    /\ UNCHANGED <<sessionCache, storage, rateLimiter, timer, errorLogs, pc, text,
                   local, effects, lastTerm, faults, added, invoked, lastStart>>
    /\ Disturbance
    /\ UNCHANGED <<recency, overwritten, lruOp, logCalls, rawData, sanitized,
                   localApiKeys, page, throttled>>

\* the mutant of getStatus: the capacity of the session cache is reported
getStatusMaxSize ==
    [errorLogs |-> errorLogs,
     cacheSize |-> sessionCache.maxSize,
     rateLimiterQueue |-> Len(rateLimiter.queue)]

\* lines 145-151: getStatus()
getStatus ==
    [errorLogs |-> errorLogs,
     cacheSize |-> Len(sessionCache.cache),
     rateLimiterQueue |-> Len(rateLimiter.queue)]

\* lines 319-321: the message {type: 'getStatus'} is answered at once with
\* sendResponse(getStatus())
GetStatus ==
    /\ delivered' = [call |-> "getStatus", text |-> <<>>, result |-> getStatus,
                     effects |-> NoEffects]
    /\ UNCHANGED <<sessionCache, storage, rateLimiter, timer, errorLogs, pc, text,
                   local, effects, lastTerm, faults, added, invoked, lastStart>>
    /\ History

\* the service worker is stopped while no call is in progress and started
\* again: the module-level state is built anew, chrome.storage.local is kept
Restart ==
    /\ \A p \in Procs : pc[p] = "idle"
    /\ sessionCache' = NewLRUCache(SessionCap)
    /\ rateLimiter' = NewRateLimiter
    /\ timer' = NoTimer
    /\ errorLogs' = <<>>
    /\ delivered' = NoDelivery
    /\ lastTerm' = NoTerm
    /\ apiKeys' = [gemini |-> NoKey]
    /\ UNCHANGED <<storage, faults, added, invoked, lastStart, pc, text, local, effects>>
    /\ Disturbance
    /\ UNCHANGED <<recency, overwritten, lruOp, logCalls, rawData, sanitized,
                   localApiKeys, page, throttled>>

\* d milliseconds pass
Elapse(d) ==
    /\ storage' = [k \in Keys |-> ItemLater(storage[k], d)]
    /\ local' = [p \in Procs |-> [local[p] EXCEPT !.item = ItemLater(@, d),
                                                  !.pending = ItemLater(@, d)]]
    /\ timer' = TimerLater(timer, d)
    /\ lastStart' = StartLater(lastStart, d)
    /\ UNCHANGED <<sessionCache, rateLimiter, errorLogs, pc, text, effects, faults,
                   added, invoked>>
    /\ Quiet

\* one timer interval passes
ElapseInterval ==
    /\ \A k \in Keys : Young(storage[k], interval)
    /\ \A p \in Procs : Young(local[p].item, interval) /\ Young(local[p].pending, interval)
    /\ Elapse(interval)

\* the time-to-live of an entry passes
ElapseTTL == Elapse(cacheTTL)

\* a step of call p, the collaborators doing their work
CallStep(p, terms) ==
    \/ \E str \in terms : LookupMeaning(p, str)
    \/ StorageGet(p)
    \/ PersistentGetResumes(p)
    \/ StorageRemove(p)
    \/ PersistentGetExpired(p)
    \/ \E raw \in RawResponses(text[p]) : FetchSettles(p, raw)
    \/ StorageSet(p)
    \/ PersistentSetResumes(p)

\* a step of call p in which a collaborator fails
FaultStep(p) ==
    \/ StorageGetFails(p)
    \/ StorageRemoveFails(p)
    \/ \E kind \in FetchFailures : FetchFails(p, kind)
    \/ StorageSetFails(p)

(***************************************************************************)
(* The content script (content.js) and the card of selection-ui.js, in one *)
(* page whose extension context stays valid.  The card is what the         *)
(* handlers test and set: whether it was created, its view with the data   *)
(* rendered and the Insert button, its display style, and `hides`, the     *)
(* timeouts of hide() that are pending; `dismissed` is history, what       *)
(* called hide() since the card was shown last.  `sent` is                 *)
(* the message whose response callback has not run yet (one at a time),    *)
(* `reveal` the data of a pending 100 ms timeout of a rewritten response;  *)
(* `selected` is history, the last step of the page ran                    *)
(* handleTextSelection.                                                    *)
(***************************************************************************)
NoMessage == [type |-> "none"]

\* selectionUI.show(options): the card is created if need be, rendered and
\* displayed; a pending timeout of hide() is not cleared
Show(card, view, data, isEditable) ==
    [card EXCEPT !.created = TRUE, !.view = view, !.data = data,
                 !.insert = (view = "rewritten-text" /\ isEditable),
                 !.display = "block", !.dismissed = "no"]

\* selectionUI.hide(): display becomes 'none' in a timeout, 150 ms later
Hide(card, by) ==
    IF card.created THEN [card EXCEPT !.hides = @ + 1, !.dismissed = by] ELSE card

\* what window.getSelection() gives the handler: nothing or a collapsed
\* selection, a text shorter than two characters, a text next to the card of
\* another extension, the single word 'hi', the text 'hi yo'

\* the mutant of handleTextSelection: the state is not looked at first
handleTextSelectionUnlocked(pg, selection) ==
    IF selection = "collapsed"
    THEN IF pg.currentState # "IDLE"
         THEN [pg EXCEPT !.card = Hide(@, "selection"), !.currentState = "IDLE"]
         ELSE pg
    ELSE IF selection \in {"short", "conflicting"}
    THEN [pg EXCEPT !.lastSelectionRect = TRUE]
    ELSE IF selection = "word"
    THEN [pg EXCEPT !.lastSelectionRect = TRUE,
                    !.card = Show(@, "loading", Null, FALSE),
                    !.currentState = "SHOWING_OPTIONS",
                    !.sent = [type |-> "lookup", text |-> <<"h", "i">>]]
    ELSE [pg EXCEPT !.lastSelectionRect = TRUE,
                    !.card = Show(@, "rewrite-options", <<"h", "i", " ", "y", "o">>, FALSE),
                    !.currentState = "SHOWING_OPTIONS"]

\* content script lines 76-137: handleTextSelection, the top frame
handleTextSelection(pg, selection) ==
    IF pg.currentState \in {"REWRITE_RESULT_VISIBLE", "AWAITING_REWRITE"}
    THEN pg
    ELSE IF selection = "collapsed"
    THEN IF pg.currentState # "IDLE"
         THEN [pg EXCEPT !.card = Hide(@, "selection"), !.currentState = "IDLE"]
         ELSE pg
    ELSE IF selection \in {"short", "conflicting"}
    THEN [pg EXCEPT !.lastSelectionRect = TRUE]
    ELSE IF selection = "word"
    THEN [pg EXCEPT !.lastSelectionRect = TRUE,
                    !.card = Show(@, "loading", Null, FALSE),
                    !.currentState = "SHOWING_OPTIONS",
                    !.sent = [type |-> "lookup", text |-> <<"h", "i">>]]
    ELSE [pg EXCEPT !.lastSelectionRect = TRUE,
                    !.card = Show(@, "rewrite-options", <<"h", "i", " ", "y", "o">>, FALSE),
                    !.currentState = "SHOWING_OPTIONS"]

\* content script lines 146-188: handleServiceWorkerResponse, no lastError;
\* response.type and response.errorType are undefined when the field is absent
handleServiceWorkerResponse(pg, response) ==
    IF response.success
    THEN IF "type" \in DOMAIN response /\ response.type = "definition"
         THEN [pg EXCEPT !.card = Show(@, "definition", response.data, FALSE)]
         ELSE IF "type" \in DOMAIN response /\ response.type = "rewritten"
         THEN [pg EXCEPT !.reveal = [data |-> response.data]]
         ELSE pg
    ELSE [pg EXCEPT
            !.card = Show(@, IF /\ "errorType" \in DOMAIN response
                                /\ response.errorType = "MODEL_OVERLOAD"
                             THEN "model-selection"
                             ELSE "error",
                          response.error, FALSE),
            !.currentState = "SHOWING_OPTIONS"]

\* content script lines 193-210: handleMouseDown
handleMouseDown(pg, inside) ==
    IF ~pg.card.created \/ pg.card.display = "none"
    THEN pg
    ELSE IF ~inside
    THEN [pg EXCEPT !.card = Hide(@, "outside"), !.currentState = "IDLE"]
    ELSE pg

\* pending timeouts of hide() at most
MaxHides == 1

\* a step of the page: no more than MaxHides timeouts pending, no message
\* sent while a response is awaited, the worker left alone; `selected` and
\* `response` tell whether handleTextSelection ran and a response was taken
PageStep(pg, selected, response) ==
    /\ pg.card.hides <= MaxHides
    /\ pg.sent = page.sent \/ page.sent = NoMessage \/ response
    /\ page' = [pg EXCEPT !.selected = selected]
    /\ delivered' = IF response THEN NoDelivery ELSE delivered
    /\ UNCHANGED <<sessionCache, recency, overwritten, lruOp, storage, rateLimiter,
                   timer, errorLogs, pc, text, local, effects, lastTerm,
                   disturbed, faults, added, invoked, lastStart, apiKeys, logCalls,
                   rawData, sanitized, localApiKeys, throttled>>

\* the debounced mouseup handler or the Ctrl+Shift+L shortcut runs
\* handleTextSelection on what is selected then
TextSelection ==
    \E selection \in {"collapsed", "short", "conflicting", "word", "sentence"} :
        /\ handleTextSelection(page, selection).card.hides <= MaxHides
        /\ PageStep(handleTextSelection(page, selection), TRUE, FALSE)

\* a mousedown inside or outside the card
MouseDown ==
    \E inside \in BOOLEAN :
        /\ handleMouseDown(page, inside).card.hides <= MaxHides
        /\ PageStep(handleMouseDown(page, inside), FALSE, FALSE)

\* selection-ui.js lines 184-203, action 'rewrite': a click on the Formal
\* button of the rewrite options dispatches 'wordup-rewrite-request'; content
\* script lines 227-255: its listener
RewriteClicked ==
    /\ page.card.display = "block"
    /\ page.card.view = "rewrite-options"
    /\ PageStep(IF ~page.lastSelectionRect
                THEN page
                ELSE [page EXCEPT
                        !.currentState = "AWAITING_REWRITE",
                        !.card = Show(@, "loading", Null, FALSE),
                        !.sent = [type |-> "rewriteTone", text |-> page.card.data,
                                  tone |-> "formal"]],
                FALSE, FALSE)

\* selection-ui.js lines 184-203, action 'insert': a click on the Insert
\* button dispatches 'wordup-insert-request'; content script lines 258-271:
\* its listener
InsertClicked ==
    /\ page.card.display = "block"
    /\ page.card.insert
    /\ PageStep([page EXCEPT !.card = Hide(@, "insert"), !.currentState = "IDLE"],
                FALSE, FALSE)

\* selection-ui.js lines 184-203, action 'close': a click on the Close
\* button of the rewritten text calls hide()
CloseClicked ==
    /\ page.card.display = "block"
    /\ page.card.view = "rewritten-text"
    /\ PageStep([page EXCEPT !.card = Hide(@, "close")], FALSE, FALSE)

\* selection-ui.js lines 306-308: a timeout of hide() fires
HideTimeout ==
    /\ page.card.hides > 0
    /\ PageStep([page EXCEPT !.card.display = "none", !.card.hides = @ - 1],
                FALSE, FALSE)

\* content script lines 163-173: the timeout of a rewritten response fires
RevealTimeout ==
    /\ page.reveal # Null
    /\ \E isEditable \in BOOLEAN :
          PageStep([page EXCEPT
                      !.currentState = "REWRITE_RESULT_VISIBLE",
                      !.card = Show(@, "rewritten-text", page.reveal.data, isEditable),
                      !.reveal = Null],
                   FALSE, FALSE)

\* the callback of chrome.runtime.sendMessage runs with the response of the
\* worker and hands it to handleServiceWorkerResponse
ResponseArrives ==
    /\ page.sent # NoMessage
    /\ delivered.call # "none"
    /\ page.reveal = Null
    /\ PageStep([handleServiceWorkerResponse(page, delivered.result)
                    EXCEPT !.sent = NoMessage],
                FALSE, TRUE)

\* the router of the worker takes the message of the page: lines 301-333
MessageReceived ==
    /\ delivered.call = "none"
    /\ \/ page.sent.type = "lookup" /\ LookupMeaning(1, page.sent.text)
       \/ page.sent.type = "rewriteTone"
            /\ RewriteTone(1, page.sent.text, page.sent.tone)

\* the worker works on the message while no response waits for the page;
\* the fetch of a rewrite settles with a text or is rejected
WorkerWorks ==
    /\ delivered.call = "none"
    /\ \/ CallStep(1, {})
       \/ \E response \in {r \in GeminiResponses : r.rejects \/ RewriteResult(r).success} :
            RewriteSettles(1, response)
       \/ IntervalCallback
       \/ ElapseInterval
       \/ ApiKeysAssigned("AIza")
       \/ Restart

(***************************************************************************)
(* throttle(fn, ms): the closure state of one wrapper.  `timeout` is the   *)
(* time left until the callback of its setTimeout is due, -1 when         *)
(* none is pending.  History: the wrapper calls made from outside, the     *)
(* invocations of fn with the time since the one before (followed up to    *)
(* ms), and the time since the last invocation.                            *)
(***************************************************************************)
ThrottleMs == 2

\* lines 481-496: wrapper(...args), up to its return
Wrapper(t, args) ==
    IF t.inThrottle
    THEN [t EXCEPT !.lastArgs = args]
    ELSE [t EXCEPT !.lastArgs = args,
                   !.inThrottle = TRUE,
                   !.runs = Append(@, [args |-> args, gap |-> t.sinceRun]),
                   !.sinceRun = 0,
                   !.timeout = ThrottleMs]


InitWorker ==
    /\ storage = [k \in Keys |-> NoItem]
    /\ rateLimiter = NewRateLimiter
    /\ timer = NoTimer
    /\ errorLogs = <<>>
    /\ pc = [p \in Procs |-> "idle"]
    /\ text = [p \in Procs |-> <<>>]
    /\ local = [p \in Procs |-> NoLocal]
    /\ effects = [p \in Procs |-> NoEffects]
    /\ delivered = NoDelivery
    /\ lastTerm = NoTerm
    /\ disturbed = [p \in Procs |-> FALSE]
    /\ faults = 0
    /\ added = <<>>
    /\ invoked = <<>>
    /\ lastStart = now - 2 * interval
    /\ apiKeys = [gemini |-> NoKey]
    /\ logCalls = 0
    /\ sanitized = NotRun
    /\ localApiKeys = Null
    /\ page = [currentState |-> "IDLE",
               card |-> [created |-> FALSE, view |-> "none", data |-> Null,
                         insert |-> FALSE, display |-> "none", hides |-> 0,
                         dismissed |-> "no"],
               lastSelectionRect |-> FALSE, sent |-> NoMessage, reveal |-> Null,
               selected |-> FALSE]
    /\ throttled = [inThrottle |-> FALSE, lastArgs |-> Null, timeout |-> -1,
                    calls |-> 0, runs |-> <<>>, sinceRun |-> ThrottleMs]

Init ==
    /\ InitWorker
    /\ rawData = NotArray
    /\ sessionCache = NewLRUCache(SessionCap)
    /\ recency = <<>>
    /\ overwritten = FALSE
    /\ lruOp = NoOp

Next ==
    \/ \E p \in Procs : CallStep(p, LowerTerms)
    \/ IntervalCallback
    \/ ElapseInterval
    \/ ElapseTTL
    \/ Restart

Spec == Init /\ [][Next]_vars

\* one caller, each call made after the one before it has resolved, and
\* collaborators that can fail
NextSeq ==
    \/ CallStep(1, Terms)
    \/ FaultStep(1)
    \/ IntervalCallback
    \/ ElapseInterval
    \/ ElapseTTL
    \/ Restart

SpecSeq == Init /\ [][NextSeq]_vars

(***************************************************************************)
(* Calls for one and the same term, in progress together.  Whatever has    *)
(* been awaited settles in the end: the storage operations and the fetch   *)
(* complete, time passes and the interval callback runs when it is due.    *)
(***************************************************************************)
TwinTerms == {<<"h", "i">>}

\* what call p awaits settles, and the call resumes
Settle(p) ==
    \/ StorageGet(p)
    \/ PersistentGetResumes(p)
    \/ StorageRemove(p)
    \/ PersistentGetExpired(p)
    \/ \E raw \in RawResponses(text[p]) : FetchSettles(p, raw)
    \/ StorageSet(p)
    \/ PersistentSetResumes(p)

NextTwin ==
    \/ \E p \in Procs : CallStep(p, TwinTerms)
    \/ IntervalCallback
    \/ ElapseInterval
    \/ ElapseTTL
    \/ Restart

SpecTwin ==
    /\ Init
    /\ [][NextTwin]_vars
    /\ \A p \in Procs : WF_vars(Settle(p))
    /\ WF_vars(IntervalCallback)
    /\ WF_vars(ElapseInterval \/ ElapseTTL)

(***************************************************************************)
(* The rate limiter on its own: MaxReq requests are added at any moments,  *)
(* time passes in half intervals, and the interval callback runs when its  *)
(* timer is due or later.  A request notes when it runs and whether it     *)
(* returned, threw or rejected, nothing else.                              *)
(***************************************************************************)
MaxReq == 3

\* rateLimiter.add(request); `running` is history: the timer was set already
Add(id) ==
    /\ id = Len(added) + 1
    /\ id <= MaxReq
    /\ rateLimiter' = RateLimiterAdd(rateLimiter, StubRequest(id))
    /\ timer' = RateLimiterAddTimer(rateLimiter, timer, StubRequest(id), now)
    /\ added' = Append(added, [id |-> id, running |-> rateLimiter.isProcessing])
    /\ UNCHANGED <<sessionCache, storage, errorLogs, pc, text, local, effects,
                   faults, invoked, lastStart>>
    /\ Quiet

ElapseHalf == Elapse(interval \div 2)

NextPacer ==
    \/ \E id \in 1..MaxReq : Add(id)
    \/ IntervalCallback
    \/ ElapseHalf

SpecPacer == Init /\ [][NextPacer]_vars

\* the same with the timer firing: a callback that is due runs, and time passes
SpecDrain == SpecPacer /\ WF_vars(IntervalCallback) /\ WF_vars(ElapseHalf)

\* rateLimiter.add(request) of a request that returns; `lingering` is
\* history: the timer was running on an empty queue
AddPlain(id) ==
    /\ id = Len(added) + 1
    /\ id <= MaxReq
    /\ rateLimiter' = RateLimiterAdd(rateLimiter, [kind |-> "plain", id |-> id])
    /\ timer' = RateLimiterAddTimer(rateLimiter, timer, [kind |-> "plain", id |-> id], now)
    /\ added' = Append(added, [id |-> id, running |-> rateLimiter.isProcessing,
                                lingering |-> rateLimiter.isProcessing
                                              /\ rateLimiter.queue = <<>>])
    /\ UNCHANGED <<sessionCache, storage, errorLogs, pc, text, local, effects,
                   faults, invoked, lastStart>>
    /\ Quiet

NextLinger ==
    \/ \E id \in 1..MaxReq : AddPlain(id)
    \/ IntervalCallback
    \/ ElapseHalf

\* requests that return, added at any moments, the timer callback and the
\* clock fair
SpecLinger ==
    Init /\ [][NextLinger]_vars /\ WF_vars(IntervalCallback) /\ WF_vars(ElapseHalf)

(***************************************************************************)
(* The status message arriving at any moment of lookups for one term that  *)
(* are in progress together and whose fetches can reject.                  *)
(***************************************************************************)
NextStatus ==
    \/ \E p \in Procs : CallStep(p, TwinTerms)
    \/ \E p \in Procs : FetchFails(p, "rejects")
    \/ GetStatus
    \/ IntervalCallback
    \/ ElapseInterval
    \/ ElapseTTL
    \/ Restart

SpecStatus == Init /\ [][NextStatus]_vars

(***************************************************************************)
(* Rewrites in progress together and with a lookup; the lookups are for    *)
(* one term and come one at a time.                                        *)
(***************************************************************************)
RewriteStep(p) ==
    \/ \E str \in TwinTerms, tone \in Tones : RewriteTone(p, str, tone)
    \/ \E response \in GeminiResponses : RewriteSettles(p, response)

NextRewrite ==
    \/ CallStep(1, TwinTerms)
    \/ \E p \in Procs : RewriteStep(p)
    \/ \E key \in GeminiKeys : ApiKeysAssigned(key)
    \/ IntervalCallback
    \/ ElapseInterval
    \/ ElapseTTL
    \/ Restart

SpecRewrite == Init /\ [][NextRewrite]_vars

(***************************************************************************)
(* The key in chrome.storage.local and the key in config.apiKeys: the      *)
(* options page saves keys, the worker restarts and loads them, and        *)
(* rewrites are asked for.                                                 *)
(***************************************************************************)
NextBoot ==
    \/ ConfigLoaded
    \/ \E key \in GeminiKeys : KeySaved(key)
    \/ \E p \in Procs : RewriteStep(p)
    \/ Restart

SpecBoot == Init /\ [][NextBoot]_vars

(***************************************************************************)
(* One page and the worker: the user selects text, clicks on the card and  *)
(* outside it, the worker answers the lookups and rewrites of the page.    *)
(***************************************************************************)
NextPage ==
    \/ TextSelection
    \/ MouseDown
    \/ RewriteClicked
    \/ InsertClicked
    \/ CloseClicked
    \/ HideTimeout
    \/ RevealTimeout
    \/ ResponseArrives
    \/ MessageReceived
    \/ WorkerWorks

SpecPage == Init /\ [][NextPage]_vars

(***************************************************************************)
(* One caller making lookups and rewrites, one call after the other, with  *)
(* collaborators that can fail; whatever has been awaited settles in the   *)
(* end, with a result or with a failure.  Time passes in whole             *)
(* time-to-live spans.                                                     *)
(***************************************************************************)
NextFaulty ==
    \/ CallStep(1, TwinTerms)
    \/ FaultStep(1)
    \/ RewriteStep(1)
    \/ ApiKeysAssigned("AIza")
    \/ IntervalCallback
    \/ ElapseTTL
    \/ Restart

SpecFaulty ==
    /\ Init
    /\ [][NextFaulty]_vars
    /\ WF_vars(Settle(1))
    /\ WF_vars(\E response \in GeminiResponses : RewriteSettles(1, response))
    /\ WF_vars(IntervalCallback)
    /\ WF_vars(ElapseTTL)

(***************************************************************************)
(* sanitizeDictionaryResponse on its own, called once on a response of one *)
(* entry with up to MaxGroups meaning groups.                              *)
(***************************************************************************)
MaxGroups == 2

SynonymLists == {<<>>, <<"a">>, <<"a", "a">>, <<"a", "b">>, <<"b", "a">>}

AntonymLists == {<<>>, <<"x">>, <<"x", "a">>}

\* the meaning groups a response can have: each with a definition, the first
\* one with or without
GroupsOf(n) ==
    {g \in [1..n -> {Group(d, syn, ant) :
                        d \in {<<>>, <<[definition |-> "A greeting"]>>},
                        syn \in SynonymLists, ant \in AntonymLists}] :
        \A i \in 2..n : g[i].definitions # <<>>}

SanitizerInputs ==
    {JsonArray(<<EntryOf("hi", g)>>) : g \in UNION {GroupsOf(n) : n \in 0..MaxGroups}}

InitSanitize ==
    /\ InitWorker
    /\ sessionCache = NewLRUCache(SessionCap)
    /\ recency = <<>>
    /\ overwritten = FALSE
    /\ lruOp = NoOp
    /\ rawData \in SanitizerInputs

Sanitize ==
    /\ sanitized = NotRun
    /\ sanitized' = sanitizeDictionaryResponse(rawData)
    /\ UNCHANGED <<sessionCache, recency, overwritten, lruOp, storage, rateLimiter,
                   timer, errorLogs, pc, text, local, effects, delivered, lastTerm,
                   disturbed, faults, added, invoked, lastStart, apiKeys, logCalls,
                   rawData, localApiKeys, page, throttled>>

NextSanitize == Sanitize

SpecSanitize == InitSanitize /\ [][NextSanitize]_vars

(***************************************************************************)
(* logError on its own: MaxLogCalls calls, one after the other.  The       *)
(* details of a call are its number, so that every record is told apart.   *)
(***************************************************************************)
MaxLogCalls == 105

LogError ==
    /\ logCalls < MaxLogCalls
    /\ logCalls' = logCalls + 1
    /\ errorLogs' = logError(errorLogs, "onMessage.router", logCalls + 1)
    /\ UNCHANGED <<sessionCache, recency, overwritten, lruOp, storage, rateLimiter,
                   timer, pc, text, local, effects, delivered, lastTerm, disturbed,
                   faults, added, invoked, lastStart, apiKeys, rawData, sanitized,
                   localApiKeys, page, throttled>>

NextLog == LogError

SpecLog == Init /\ [][NextLog]_vars

(***************************************************************************)
(* A throttled function on its own: MaxCalls calls of the wrapper at any   *)
(* moments, time passing in units, the timeout callback running when it is *)
(* due or later.                                                           *)
(***************************************************************************)
MaxCalls == 4

\* nothing but the wrapper is involved
OnlyThrottle ==
    UNCHANGED <<sessionCache, recency, overwritten, lruOp, storage, rateLimiter,
                timer, errorLogs, pc, text, local, effects, delivered, lastTerm,
                disturbed, faults, added, invoked, lastStart, apiKeys, logCalls,
                rawData, sanitized, localApiKeys, page>>

\* the wrapper is called; the argument is the number of the call
ThrottledCall ==
    /\ throttled.calls < MaxCalls
    /\ throttled' = [Wrapper(throttled, [arg |-> throttled.calls + 1])
                       EXCEPT !.calls = @ + 1]
    /\ OnlyThrottle

\* lines 488-495: the callback of setTimeout
ThrottleTimeout ==
    /\ throttled.timeout = 0
    /\ throttled' =
         LET released == [throttled EXCEPT !.inThrottle = FALSE, !.timeout = -1]
         IN  IF Truthy(released.lastArgs)
             THEN [Wrapper(released, released.lastArgs) EXCEPT !.lastArgs = Null]
             ELSE released
    /\ OnlyThrottle

\* one unit of time passes
ThrottleElapse ==
    /\ throttled' = [throttled EXCEPT
                       !.timeout = IF @ > 0 THEN @ - 1 ELSE @,
                       !.sinceRun = IF @ < ThrottleMs THEN @ + 1 ELSE @]
    /\ OnlyThrottle

NextThrottle ==
    \/ ThrottledCall
    \/ ThrottleTimeout
    \/ ThrottleElapse

SpecThrottle == Init /\ [][NextThrottle]_vars

(***************************************************************************)
(* The LRUCache class on its own: caches of every capacity 1..MaxCap,      *)
(* driven by arbitrary get and set calls.                                  *)
(***************************************************************************)
MaxCap == 3

LruKeys == {"k1", "k2", "k3", "k4"}

LruValues == {[v |-> 1], [v |-> 2]}

InitLRU ==
    /\ sessionCache \in {NewLRUCache(n) : n \in 1..MaxCap}
    /\ recency = <<>>
    /\ overwritten = FALSE
    /\ lruOp = NoOp
    /\ InitWorker
    /\ rawData = NotArray

\* the rest of the worker is not involved
WorkerIdle ==
    UNCHANGED <<storage, rateLimiter, timer, errorLogs, pc, text, local, effects,
                delivered, lastTerm, disturbed, faults, added, invoked, lastStart,
                apiKeys, logCalls, rawData, sanitized, localApiKeys, page, throttled>>

CacheGet(key) ==
    /\ sessionCache' = LRUGet(sessionCache, key)
    /\ recency' = IF LRUHas(sessionCache, key) THEN Touch(recency, key) ELSE recency
    /\ lruOp' = [op |-> "get", key |-> key, hit |-> LRUHas(sessionCache, key),
                 value |-> LRUGetValue(sessionCache, key),
                 before |-> sessionCache.cache, used |-> recency,
                 prev |-> Brief(lruOp)]
    /\ UNCHANGED overwritten
    /\ WorkerIdle

CacheSet(key, value) ==
    /\ sessionCache' = LRUSet(sessionCache, key, value)
    /\ recency' = RecencyAfter(Touch(recency, key), sessionCache')
    /\ overwritten' = (overwritten \/ LRUHas(sessionCache, key))
    /\ lruOp' = [op |-> "set", key |-> key, value |-> value,
                 hit |-> LRUHas(sessionCache, key),
                 before |-> sessionCache.cache, used |-> recency,
                 prev |-> Brief(lruOp)]
    /\ WorkerIdle

NextLRU ==
    \/ \E key \in LruKeys : CacheGet(key)
    \/ \E key \in LruKeys, value \in LruValues : CacheSet(key, value)

SpecLRU == InitLRU /\ [][NextLRU]_vars

\* the last operation was a set of an absent key into a full cache, in a
\* history of sets of absent keys and gets only
EvictingSet ==
    /\ lruOp.op = "set"
    /\ ~lruOp.hit
    /\ Len(lruOp.before) = sessionCache.maxSize
    /\ ~overwritten

Removed == MapKeys(lruOp.before) \ MapKeys(sessionCache.cache)

\* C1: a set of an absent key into a full cache removes exactly one entry,
\* the one whose last use (insertion or get hit) is the oldest, and keeps
\* every other entry; a get hit makes its key the most recently used one, so
\* it is evicted after every entry not used since.
C1_EvictsLeastRecentlyUsed ==
    /\ EvictingSet =>
          /\ Removed = {Head(lruOp.used)}
          /\ MapKeys(sessionCache.cache) =
                (MapKeys(lruOp.before) \ {Head(lruOp.used)}) \cup {lruOp.key}
          /\ \A k \in MapKeys(lruOp.before) \ Removed :
                MapGet(sessionCache.cache, k) = MapGet(lruOp.before, k)
    /\ (lruOp.op = "get" /\ lruOp.hit /\ ~overwritten) =>
          /\ recency[Len(recency)] = lruOp.key
          /\ sessionCache.cache[Len(sessionCache.cache)].key = lruOp.key
          /\ MapKeys(sessionCache.cache) = MapKeys(lruOp.before)
    /\ ~overwritten =>
          [i \in DOMAIN sessionCache.cache |-> sessionCache.cache[i].key] = recency

\* C1 witness: a full cache of capacity 3 evicts right after a get hit; the
\* key just read is kept and the least recently used one goes
C1_Witness ==
    /\ EvictingSet
    /\ sessionCache.maxSize = 3
    /\ lruOp.prev.op = "get" /\ lruOp.prev.hit
    /\ Removed = {Head(lruOp.used)}
    /\ lruOp.prev.key \notin Removed
    /\ sessionCache.cache[2].key = lruOp.prev.key

\* C2: set(key, value) of a key that is present replaces the value and makes
\* the key the most recently used entry (the last to be evicted).
C2_SetPresentMarksMostRecent ==
    (lruOp.op = "set" /\ lruOp.hit) =>
        /\ MapHas(sessionCache.cache, lruOp.key)
        /\ MapGet(sessionCache.cache, lruOp.key) = lruOp.value
        /\ sessionCache.cache[Len(sessionCache.cache)].key = lruOp.key

\* call p has read an item from chrome.storage.local and persistentCache.get
\* is about to look at it
ReadsItem(p) == pc[p] = "pget_ready" /\ ~local[p].failed /\ local[p].item # NoItem

\* now - writeTime of an item
Age(item) == now - item.written

PersistentHit(p) ==
    /\ delivered'.text = text[p]
    /\ delivered'.result = [success |-> TRUE, data |-> local[p].item.value,
                            source |-> "persistent"]

\* the remove of an expired item deletes the record unless the store fails,
\* and persistentCache.get returns absent either way: the lookup is enqueued
RemovesThenAbsent(p) ==
    /\ (pc[p] = "premove_issued" /\ pc'[p] = "premove_ready" /\ ~local'[p].failed)
           => storage'[CacheKey(text[p])] = NoItem
    /\ (pc[p] = "premove_ready" /\ pc'[p] # pc[p]) => pc'[p] = "queued"

\* C3 as stated: persistentCache.get returns the value of an item read at
\* now - writeTime < T, and for now - writeTime >= T, the boundary included,
\* returns absent and deletes the record.
C3_AbsentFromTTL ==
    [][\A p \in Procs :
          /\ (ReadsItem(p) /\ pc'[p] # pc[p]) =>
                 IF Age(local[p].item) < cacheTTL
                 THEN PersistentHit(p)
                 ELSE pc'[p] = "premove_issued"
          /\ RemovesThenAbsent(p)]_vars

\* C3 amended: persistentCache.get returns the value of an item read at
\* now - writeTime <= T, the boundary included; for now - writeTime > T it
\* asks the store to delete the record and returns absent.
C3_AbsentAfterTTL ==
    [][\A p \in Procs :
          /\ (ReadsItem(p) /\ pc'[p] # pc[p]) =>
                 IF Age(local[p].item) <= cacheTTL
                 THEN PersistentHit(p) /\ storage' = storage
                 ELSE pc'[p] = "premove_issued" /\ delivered' = NoDelivery
          /\ RemovesThenAbsent(p)]_vars

\* C3 witness: a read exactly one time-to-live after the write returned the
\* value, and the record is still stored
C3_Witness ==
    /\ delivered.result.success
    /\ delivered.result.source = "persistent"
    /\ storage[CacheKey(delivered.text)] # NoItem
    /\ Age(storage[CacheKey(delivered.text)]) = cacheTTL

SessionHit(p, str) == LookupMeaning(p, str) /\ LRUHas(sessionCache, CacheKey(str))

\* C4: a lookup whose key is in the session cache resolves at once with the
\* cached value and source 'session'; it reads nothing from the store, adds
\* nothing to the rate limiter, starts no fetch, and leaves the session cache
\* as it was but for the place of that key in the order of use.
C4_SessionHitTouchesNothingElse ==
    [][\A p \in Procs, str \in Terms :
          SessionHit(p, str) =>
              /\ delivered'.result =
                     [success |-> TRUE,
                      data |-> MapGet(sessionCache.cache, CacheKey(str)),
                      source |-> "session"]
              /\ pc' = pc
              /\ storage' = storage
              /\ rateLimiter' = rateLimiter
              /\ timer' = timer
              /\ Entries(sessionCache') = Entries(sessionCache)
              /\ MapDelete(sessionCache'.cache, CacheKey(str)) =
                     MapDelete(sessionCache.cache, CacheKey(str))
              /\ delivered'.effects.reads = 0
              /\ delivered'.effects.enqueues = 0
              /\ delivered'.effects.fetches = 0]_vars

\* C4 witness: a term in capitals was answered from the session cache by the
\* entry a lookup of the lower-case term had left there
C4_Witness ==
    /\ delivered.result.success
    /\ delivered.result.source = "session"
    /\ delivered.result.data.word # delivered.text
    /\ toLowerCase(delivered.text) # delivered.text
    /\ ~delivered.effects.repeat

\* C5: a lookup that misses the session cache and reads a stored item that has
\* not expired puts the item's value into the session cache under its key and
\* resolves with it and source 'persistent'; nothing is enqueued, no fetch is
\* started, and the stored items stay as they are.
C5_PersistentHitHydratesSession ==
    [][\A p \in Procs :
          (ReadsItem(p) /\ ~Expired(local[p].item) /\ pc'[p] # pc[p]) =>
              /\ PersistentHit(p)
              /\ LRUHas(sessionCache', CacheKey(text[p]))
              /\ MapGet(sessionCache'.cache, CacheKey(text[p])) = local[p].item.value
              /\ pc'[p] = "idle"
              /\ storage' = storage
              /\ rateLimiter' = rateLimiter
              /\ timer' = timer
              /\ delivered'.effects.enqueues = 0
              /\ delivered'.effects.fetches = 0
              /\ delivered'.effects.storeSets = 0]_vars

\* C5 witness: a stored item some intervals old was returned from the store;
\* the session cache holds it, the item has its old expiry, the queue is empty
C5_Witness ==
    /\ delivered.result.success
    /\ delivered.result.source = "persistent"
    /\ LRUHas(sessionCache, CacheKey(delivered.text))
    /\ storage[CacheKey(delivered.text)] # NoItem
    /\ storage[CacheKey(delivered.text)].expires < now + cacheTTL
    /\ storage[CacheKey(delivered.text)].expires > now
    /\ rateLimiter.queue = <<>>

\* a response from the API is delivered, its write to the store not failed
ApiDelivered ==
    /\ delivered.result.success
    /\ delivered.result.source = "api"
    /\ ~delivered.effects.storeFailed

\* both caches hold the delivered record under the key of the delivered term
BothCachesHold ==
    LET cacheKey == CacheKey(delivered.text)
    IN  /\ LRUHas(sessionCache, cacheKey)
        /\ MapGet(sessionCache.cache, cacheKey) = delivered.result.data
        /\ storage[cacheKey] # NoItem
        /\ storage[cacheKey].value = delivered.result.data

C7_RepeatedLookupIsSessionHit ==
    /\ \A p \in Procs : ~effects[p].repeat
    /\ delivered.effects.repeat =>
          /\ delivered.result.success
          /\ delivered.result.source = "session"
          /\ delivered.effects.reads = 0
          /\ delivered.effects.enqueues = 0
          /\ delivered.effects.fetches = 0

\* C7 witness: the second of two lookups in succession, in capitals where the
\* first was in lower case, was answered from the session cache
C7_Witness ==
    /\ delivered.effects.repeat
    /\ delivered.result.source = "session"
    /\ delivered.result.data.word # delivered.text
    /\ delivered.effects.fetches = 0

\* the ids of the requests in a sequence of them
Ids(reqs) == [i \in DOMAIN reqs |-> reqs[i].id]

\* C8: the requests invoked are the first of the requests added, in the order
\* of add(), each once, and the queue holds the rest in that order: nothing
\* is reordered, skipped or invoked twice.
C8_FifoExactlyOnce ==
    /\ Len(invoked) <= Len(added)
    /\ Ids(invoked) = Ids(SubSeq(added, 1, Len(invoked)))
    /\ Ids(rateLimiter.queue) = Ids(SubSeq(added, Len(invoked) + 1, Len(added)))

\* C8 witness: three requests were invoked, one of them added while the timer
\* was running and a later one after the timer had stopped
C8_Witness ==
    /\ Len(invoked) >= 3
    /\ Len(invoked) = Len(added)
    /\ \E i, j \in DOMAIN added : i < j /\ added[i].running /\ ~added[j].running

\* C9 as stated: two consecutive invocations start at least 1000 /
\* requestsPerSecond ms apart.
C9_MinimumGap == \A i \in 2..Len(invoked) : invoked[i].gap >= interval

\* C10 as stated: at most one dispatched lookup is in flight (fetch or cache
\* write-back pending) at any time.
C10_OneInFlight == Cardinality({p \in Procs : InFlight(p)}) <= 1

\* the places of call p's closure in the queue
QueuedAt(p) == {i \in DOMAIN rateLimiter.queue : rateLimiter.queue[i] = LookupRequest(p)}

\* a call that found its term in neither cache adds its own closure at the
\* end of the queue, whatever other calls are doing
EachEnqueuesItsOwn ==
    \A p \in Procs :
        (/\ pc[p] = "pget_ready"
         /\ ~local[p].failed
         /\ local[p].item = NoItem
         /\ pc'[p] # pc[p])
        => /\ pc'[p] = "queued"
           /\ rateLimiter'.queue = Append(rateLimiter.queue, LookupRequest(p))

\* a waiting call has one closure in the queue, a call past the queue has
\* none and has issued one fetch of its own
OneClosureOneFetch ==
    \A p \in Procs :
        /\ pc[p] = "queued" => Cardinality(QueuedAt(p)) = 1 /\ effects[p].fetches = 0
        /\ pc[p] # "queued" => QueuedAt(p) = {}
        /\ InFlight(p) => effects[p].enqueues = 1 /\ effects[p].fetches = 1

\* no key is in the session cache twice
SessionKeysOnce == Cardinality(MapKeys(sessionCache.cache)) = Len(sessionCache.cache)

\* C11: calls for the same term that found it in neither cache, in progress
\* together, each add their own closure to the queue (the queue grows by one
\* per call) and each issue their own fetch; every call resolves, and the
\* session cache never holds a key twice.
C11_TwinLookupsEachFetch ==
    /\ [][EachEnqueuesItsOwn]_vars
    /\ [](OneClosureOneFetch /\ SessionKeysOnce)
    /\ \A p \in Procs : (pc[p] # "idle") ~> (pc[p] = "idle")

\* one of two calls for the same term resolves from the API while the other,
\* started before it resolved, has issued a fetch of its own
C11_Witness ==
    /\ delivered.result.success
    /\ delivered.result.source = "api"
    /\ delivered.effects.enqueues = 1
    /\ delivered.effects.fetches = 1
    /\ \E q \in Procs :
           /\ InFlight(q)
           /\ CacheKey(text[q]) = CacheKey(delivered.text)
           /\ effects[q].fetches = 1
    /\ Len(SelectSeq(sessionCache.cache,
                      LAMBDA e : e.key = CacheKey(delivered.text))) = 1

\* a lookup has resolved with success: false in this step
FailureDelivered == delivered.text # <<>> /\ ~delivered.result.success

\* C12: when a lookupMeaning call resolves with success: false, the error
\* log holds a record of the failed lookup written by logError, whatever the
\* cause: a rejected fetch, a non-2xx status, or a response from which
\* normalization yields nothing.
C12_FailureIsLogged ==
    FailureDelivered
    => \E i \in DOMAIN errorLogs : errorLogs[i].source = "api.lookupMeaning (Primary)"

\* what a call has put in the queue and fetched: one closure at most, no
\* fetch without a closure, and the fetch went to the primary endpoint
OneActionOneFetch(str, eff) ==
    /\ eff.enqueues <= 1
    /\ eff.fetches <= eff.enqueues
    /\ eff.fetches = 1
       => eff.url = <<"https://api.dictionaryapi.dev/api/v2/entries/en/">> \o str

\* the step in which the fetch of call p is over and has given no definition
\* resolves the call: nothing is queued and nothing more is fetched
FailedFetchResolves ==
    \A p \in Procs :
        (pc[p] = "fetching" /\ pc'[p] # "fetching" /\ pc'[p] # "pset_issued")
        => /\ pc'[p] = "idle"
           /\ delivered'.text = text[p]
           /\ ~delivered'.result.success
           /\ delivered'.effects.fetches = 1
           /\ rateLimiter' = rateLimiter

\* C13: a lookupMeaning call puts at most one closure in the rate limiter's
\* queue, and the closure issues exactly one fetch, to the primary dictionary
\* endpoint; when that fetch fails the call resolves without another fetch.
C13_OneActionOneFetch ==
    /\ [](\A p \in Procs :
             /\ OneActionOneFetch(text[p], effects[p])
             /\ InFlight(p) => effects[p].fetches = 1)
    /\ [](/\ OneActionOneFetch(delivered.text, delivered.effects)
          /\ delivered.effects.fetches = delivered.effects.enqueues)
    /\ [][FailedFetchResolves]_vars

\* a call whose one fetch failed has resolved with the failure
C13_Witness ==
    /\ FailureDelivered
    /\ delivered.effects.enqueues = 1
    /\ delivered.effects.fetches = 1
    /\ errorLogs # <<>>
    /\ errorLogs[1].source = "api.lookupMeaning (Primary)"

\* the cache key of a term, letter by letter
OwnKey(str) == <<"meaning_">> \o [i \in DOMAIN str |-> LowerChar(str[i])]

\* the session cache gained or changed no entry but that of `key`
SessionWrittenAt(key) ==
    /\ MapHas(sessionCache'.cache, key)
    /\ \A k \in MapKeys(sessionCache'.cache) \ {key} :
           /\ MapHas(sessionCache.cache, k)
           /\ MapGet(sessionCache'.cache, k) = MapGet(sessionCache.cache, k)

\* the steps of the closure of call p from the end of its fetch on: a fetch
\* without a definition writes nothing; a definition is set in the session
\* cache under the call's key, then written to the store under the same key
FetchActionWrites ==
    \A p \in Procs :
        /\ (pc[p] = "fetching" /\ pc'[p] = "idle")
           => /\ sessionCache' = sessionCache
              /\ storage' = storage
              /\ delivered'.effects.sessionSets = 0
              /\ delivered'.effects.storeSets = 0
        /\ (pc[p] = "fetching" /\ pc'[p] = "pset_issued")
           => /\ SessionWrittenAt(OwnKey(text[p]))
              /\ storage' = storage
        /\ (pc[p] = "pset_issued" /\ pc'[p] = "pset_ready")
           => /\ sessionCache' = sessionCache
              /\ \A k \in Keys \ {OwnKey(text[p])} : storage'[k] = storage[k]
        /\ (pc[p] = "pset_ready" /\ pc'[p] = "idle")
           => /\ sessionCache' = sessionCache
              /\ storage' = storage

\* C14: the closure of a lookup writes the session cache at most once and
\* the persistent store at most once, both under the call's own key, and
\* writes neither when the fetch fails or normalization yields nothing: a
\* lookup that resolved with success: false has written no cache.
C14_WritesOwnKeyOnceOrNever ==
    /\ [](\A p \in Procs : effects[p].sessionSets <= 1 /\ effects[p].storeSets <= 1)
    /\ [](/\ delivered.effects.sessionSets <= 1
          /\ delivered.effects.storeSets <= 1
          /\ FailureDelivered => /\ delivered.effects.sessionSets = 0
                                  /\ delivered.effects.storeSets = 0)
    /\ [][FetchActionWrites]_vars

\* a lookup of "Hi" resolved from the API having written each cache once,
\* and both hold the key meaning_hi
C14_Witness ==
    /\ delivered.result.success
    /\ delivered.result.source = "api"
    /\ delivered.text = <<"H", "i">>
    /\ delivered.effects.sessionSets = 1
    /\ delivered.effects.storeSets = 1
    /\ MapHas(sessionCache.cache, <<"meaning_", "h", "i">>)
    /\ storage[<<"meaning_", "h", "i">>] # NoItem

\* this step is a sessionCache.set of some call: the hydration after a
\* persistent hit, or the set after a fetch
SessionSetBy(p) ==
    \/ pc[p] = "pget_ready" /\ pc'[p] = "idle"
    \/ pc[p] = "fetching" /\ pc'[p] = "pset_issued"

\* the entry of key k is still in the session cache after the step, with the
\* value it had unless a call for k has set it again
SessionEntryKept(k) ==
    /\ MapHas(sessionCache'.cache, k)
    /\ \/ MapGet(sessionCache'.cache, k) = MapGet(sessionCache.cache, k)
       \/ \E p \in Procs : SessionSetBy(p) /\ OwnKey(text[p]) = k

\* the step is a set into a full session cache, and k is the key it deletes
CapacityEviction(k) ==
    /\ Len(sessionCache.cache) >= sessionCache.maxSize
    /\ k = MapOldestKey(sessionCache.cache)
    /\ \E p \in Procs : SessionSetBy(p)

\* a call goes past the session check only for a key the cache does not
\* hold; a call for a key it holds resolves with that entry at once
HeldKeyIsSessionHit ==
    /\ \A p \in Procs :
           (pc[p] = "idle" /\ pc'[p] = "pget_issued")
           => ~MapHas(sessionCache.cache, OwnKey(text'[p]))
    /\ (delivered'.result.success /\ delivered'.result.source = "session")
       => /\ MapHas(sessionCache.cache, OwnKey(delivered'.text))
          /\ delivered'.result.data = MapGet(sessionCache.cache, OwnKey(delivered'.text))

Logged(source) ==
    /\ Len(errorLogs') = Len(errorLogs) + 1
    /\ errorLogs'[1].source = source
    /\ SubSeq(errorLogs', 2, Len(errorLogs')) = errorLogs

\* call p resumes after a storage operation of persistentCache.get failed
\* (the read, or the removal of an expired record): the failure is logged
\* and the call goes on to the network path as after a miss
ReadFailureIsMiss ==
    \A p \in Procs :
        (pc[p] \in {"pget_ready", "premove_ready"} /\ local[p].failed /\ pc'[p] # pc[p])
        => /\ Logged("persistentCache.get")
           /\ pc'[p] = "queued"
           /\ rateLimiter'.queue = Append(rateLimiter.queue, LookupRequest(p))
           /\ delivered' = NoDelivery

\* call p resumes after the write of persistentCache.set failed: the failure
\* is logged and the call resolves with the definition and source 'api'
WriteFailureIsSuccess ==
    \A p \in Procs :
        (pc[p] = "pset_ready" /\ local[p].failed /\ pc'[p] # pc[p])
        => /\ Logged("persistentCache.set")
           /\ pc'[p] = "idle"
           /\ delivered'.text = text[p]
           /\ delivered'.result.success
           /\ delivered'.result.source = "api"

\* a call resolves with success: false only at the end of its fetch
FailureOnlyFromFetch ==
    (delivered'.text # <<>> /\ ~delivered'.result.success)
    => \E p \in Procs : pc[p] = "fetching" /\ pc'[p] = "idle"

\* C20: a failure of chrome.storage.local during a lookup is not fatal: a
\* failed read or removal in persistentCache.get is logged and the lookup
\* goes on to the network path as after a miss; a failed write in
\* persistentCache.set is logged and the lookup resolves with success and
\* source 'api'; a lookup resolves with success: false only when its fetch
\* ends without a definition.
C20_StorageFailureIsNotFatal ==
    [][ReadFailureIsMiss /\ WriteFailureIsSuccess /\ FailureOnlyFromFetch]_vars

\* a lookup whose persistent write failed has resolved with source 'api',
\* the failure at the head of the error log
C20_Witness ==
    /\ delivered.result.success
    /\ delivered.result.source = "api"
    /\ delivered.effects.storeFailed
    /\ errorLogs # <<>>
    /\ errorLogs[1].source = "persistentCache.set"

\* C19: after any number n of logError calls the error log holds
\* min(n, maxLogSize) records, newest first, and they are the records of the
\* min(n, maxLogSize) most recent calls: a call on a full log drops the
\* oldest record.
C19_LogKeepsMostRecent ==
    /\ Len(errorLogs) = IF logCalls < 100 THEN logCalls ELSE 100
    /\ \A i \in DOMAIN errorLogs : errorLogs[i].error = logCalls - i + 1

\* 105 calls have left the 100 most recent records, the 105th first and the
\* 6th last
C19_Witness ==
    /\ logCalls = 105
    /\ Len(errorLogs) = 100
    /\ errorLogs[1].error = 105
    /\ errorLogs[100].error = 6

\* the step is a rewriteTone call that returns without awaiting anything
RewriteReturnsAtOnce == delivered'.call = "rewriteTone" /\ pc' = pc

\* C16: rewriteTone called while config.apiKeys.gemini is not set (null, or
\* the empty string) returns {success: false, error: 'Gemini API key is not
\* configured.'} without calling fetch, and puts the failure at the head of
\* the error log; no rewriteTone call starts a fetch while the key is not set.
C16_NoKeyNoFetch ==
    [][/\ (RewriteReturnsAtOnce /\ apiKeys.gemini \in {"null", ""})
          => /\ delivered'.result =
                    [success |-> FALSE, error |-> <<"Gemini API key is not configured.">>]
             /\ delivered'.effects.fetches = 0
             /\ delivered'.effects.url = <<>>
             /\ Logged("api.rewriteTone")
             /\ errorLogs'[1].error = <<"Gemini API key is not configured.">>
       /\ \A p \in Procs :
              (pc[p] = "idle" /\ pc'[p] = "rw_fetching")
              => apiKeys.gemini \notin {"null", ""}]_vars

\* rewriteTone has returned the missing-key failure while the stored key is
\* the empty string
C16_Witness ==
    /\ delivered.call = "rewriteTone"
    /\ ~delivered.result.success
    /\ delivered.result.error = <<"Gemini API key is not configured.">>
    /\ delivered.effects.fetches = 0
    /\ apiKeys.gemini = ""
    /\ errorLogs # <<>>
    /\ errorLogs[1].source = "api.rewriteTone"

\* the step belongs to a rewriteTone call
RewriteActs ==
    \/ delivered'.call = "rewriteTone"
    \/ \E p \in Procs : pc[p] = "idle" /\ pc'[p] = "rw_fetching"

\* C17: no step of a rewriteTone call changes the session cache or the
\* persistent store, and a call has read neither: every rewritten text that
\* is returned comes from a fetch the call itself has made, so that equal
\* requests each make their own network call.
C17_RewriteLeavesCachesAlone ==
    /\ [][RewriteActs => sessionCache' = sessionCache /\ storage' = storage]_vars
    /\ [](\A p \in Procs : pc[p] = "rw_fetching" => effects[p].fetches = 1)
    /\ [](delivered.call = "rewriteTone"
          => /\ delivered.effects.reads = 0
             /\ delivered.effects.removes = 0
             /\ delivered.effects.sessionSets = 0
             /\ delivered.effects.storeSets = 0
             /\ delivered.result.success => delivered.effects.fetches = 1)

\* two rewriteTone calls with the same text and tone are in progress, each
\* with a fetch of its own, while both caches hold the definition of the
\* same text
C17_Witness ==
    /\ \A p \in Procs : pc[p] = "rw_fetching" /\ effects[p].fetches = 1
    /\ text[1] = text[2]
    /\ effects[1].body = effects[2].body
    /\ MapHas(sessionCache.cache, OwnKey(text[1]))
    /\ storage[OwnKey(text[1])] # NoItem

\* C18: every outbound request of the worker, the fetch of a dictionary
\* lookup and the fetch of a rewrite alike, is started by the interval
\* callback of the rate limiter taking a request from the queue.
C18_EveryFetchThroughQueue ==
    [][\A p \in Procs :
          effects'[p].fetches > effects[p].fetches
          => /\ timer.active
             /\ now >= timer.due
             /\ rateLimiter.queue # <<>>
             /\ rateLimiter'.queue = Tail(rateLimiter.queue)]_vars

\* C21: the write-back to the persistent store is not awaited by the lookup:
\* a call whose fetch gave a definition resolves without being suspended on
\* chrome.storage.local.set, so no call is ever found waiting for that write.
C21_WriteBackNotAwaited ==
    \A p \in Procs : pc[p] # "pset_issued"

\* a response is a success object carrying data, or exactly {success: false,
\* error} with the error a string (a rewrite's message being a sequence of
\* the parts of a string)
UniformShape(call, res) ==
    IF res.success
    THEN "data" \in DOMAIN res
    ELSE /\ DOMAIN res = {"success", "error"}
         /\ IF call = "rewriteTone"
            THEN res.error \in Seq(STRING)
            ELSE res.error \in STRING

\* C22: every lookupMeaning and rewriteTone call resolves, whatever the
\* network and the storage do (fetch rejecting, an error status, a body that
\* does not parse, storage operations rejecting), and it resolves with a
\* success object or with {success: false, error: string}: again and again
\* no call is in progress.
C22_AlwaysResolvesUniformly ==
    /\ [](delivered.call # "none" => UniformShape(delivered.call, delivered.result))
    /\ []<>(\A p \in Procs : pc[p] = "idle")

\* a rewrite has resolved with the failure made from a thrown error
C22_Witness ==
    /\ delivered.call = "rewriteTone"
    /\ ~delivered.result.success
    /\ delivered.effects.fetches = 1
    /\ delivered.result.error = <<"Content blocked by API: ", "SAFETY">>

\* a record has a meaning that is neither absent nor the empty string
HasMeaning(record) == record.meaning \notin {"undefined", ""}

\* the first meaning group of the first result of a response has a first
\* definition that is not empty
FirstGroupDefines(response) ==
    /\ response.items # <<>>
    /\ response.items[1].meanings # <<>>
    /\ response.items[1].meanings[1].definitions # <<>>
    /\ response.items[1].meanings[1].definitions[1].definition # ""

\* C23: every record in the session cache and in the persistent store, and
\* every data value a lookup returns, has a non-empty meaning; a lookup whose
\* upstream response has no first definition in the first meaning group of
\* its first result, a later group having one or not, resolves as not found
\* having written no cache.
C23_MeaningNeverEmpty ==
    /\ \A i \in DOMAIN sessionCache.cache : HasMeaning(sessionCache.cache[i].value)
    /\ \A k \in Keys : storage[k] # NoItem => HasMeaning(storage[k].value)
    /\ \A p \in Procs : local[p].pending # NoItem => HasMeaning(local[p].pending.value)
    /\ (delivered.call = "lookupMeaning" /\ delivered.result.success)
       => HasMeaning(delivered.result.data)
    /\ (delivered.effects.response # Null /\ ~FirstGroupDefines(delivered.effects.response))
       => /\ ~delivered.result.success
          /\ delivered.effects.sessionSets = 0
          /\ delivered.effects.storeSets = 0

\* a lookup resolved as not found on a response whose second meaning group
\* has a definition and whose first has none
C23_Witness ==
    /\ FailureDelivered
    /\ delivered.effects.response # Null
    /\ Len(delivered.effects.response.items) = 1
    /\ Len(delivered.effects.response.items[1].meanings) = 2
    /\ delivered.effects.response.items[1].meanings[2].definitions # <<>>
    /\ ~MapHas(sessionCache.cache, OwnKey(delivered.text))

\* the words of a list
Words(list) == {list[i] : i \in DOMAIN list}

\* the list names every word of `groups` under `field`, and nothing else,
\* each word once
UnionOnce(list, groups, field) ==
    /\ Words(list) = UNION {Words(groups[i][field]) : i \in DOMAIN groups}
    /\ Cardinality(Words(list)) = Len(list)

\* C24: for a response whose first result has a first definition, the
\* synonyms and the antonyms sanitizeDictionaryResponse returns are each the
\* union, without duplicates, of the lists of all meaning groups of the
\* first result: every word of every group is there, each exactly once.
C24_UnionAcrossGroups ==
    (sanitized # NotRun /\ FirstGroupDefines(rawData))
    => /\ sanitized # Null
       /\ UnionOnce(sanitized.synonyms, rawData.items[1].meanings, "synonyms")
       /\ UnionOnce(sanitized.antonyms, rawData.items[1].meanings, "antonyms")

\* a response with two groups, the word "a" twice in the first and again in
\* the second, "b" in the second only: the synonyms returned are a, b
C24_Witness ==
    /\ sanitized # NotRun
    /\ sanitized # Null
    /\ Len(rawData.items[1].meanings) = 2
    /\ rawData.items[1].meanings[1].synonyms = <<"a", "a">>
    /\ rawData.items[1].meanings[2].synonyms = <<"a", "b">>
    /\ sanitized.synonyms = <<"a", "b">>
    /\ sanitized.antonyms = <<"x", "a">>

\* C25: the record logged when rewriteTone fails for want of the credential
\* has a source tag of its own: the tag 'api.rewriteTone', under which the
\* upstream failures, blocked content and invalid responses of rewriteTone
\* are logged, never marks a missing-credential record.
C25_MissingKeyTagDistinct ==
    \A i \in DOMAIN errorLogs :
        errorLogs[i].source = "api.rewriteTone"
        => errorLogs[i].error # <<"Gemini API key is not configured.">>

\* C26 as stated: while the fetch of a dispatched lookup stays pending, it
\* holds the one execution slot of the rate limiter: no step taken meanwhile
\* shortens the queue or starts the fetch of another call.
C26_HungFetchStallsQueue ==
    [][(\E p \in Procs : pc[p] = "fetching" /\ pc'[p] = "fetching")
          => /\ Len(rateLimiter'.queue) >= Len(rateLimiter.queue)
             /\ \A q \in Procs : pc'[q] = "fetching" => pc[q] = "fetching"]_vars

\* the callback step that calls a failing request leaves the drain running:
\* the request is off the queue, isProcessing stays set, the timer stays
\* active and its next run is due within one interval
FailureKeepsTimer ==
    [][IF Len(invoked') > Len(invoked)
       THEN invoked'[Len(invoked')].outcome # "returns" =>
               /\ rateLimiter'.queue = Tail(rateLimiter.queue)
               /\ rateLimiter'.isProcessing
               /\ timer'.active
               /\ timer'.due > now /\ timer'.due <= now + interval
       ELSE TRUE]_vars

\* C27: a request that throws or whose promise rejects does not stop the
\* drain: the timer stays active with its interval, the requests are invoked
\* in the order of add(), and again and again every request added has been
\* invoked, those behind a failing one included.
C27_FailureDoesNotStopDrain ==
    /\ FailureKeepsTimer
    /\ [](Ids(invoked) = Ids(SubSeq(added, 1, Len(invoked))))
    /\ []<>(Len(invoked) = Len(added))

\* C27 witness: a request threw, the next one gave a promise that rejected,
\* and the request behind both has been invoked
C27_Witness ==
    /\ Len(invoked) >= 3
    /\ invoked[1].outcome = "throws"
    /\ invoked[2].outcome = "rejects"
    /\ added[2].running /\ added[3].running

\* the response to a status message, delivered in the state it was taken in
StatusDelivered == delivered.call = "getStatus"

\* C28: getStatus reports the error log as it is, the number of entries of
\* the session cache and the number of requests enqueued and not yet invoked,
\* and the step that answers the message changes neither cache, nor the
\* recency order, nor the queue and its timer, nor the log, nor any call.
C28_GetStatusReadOnlySnapshot ==
    /\ [](StatusDelivered =>
             /\ delivered.result.errorLogs = errorLogs
             /\ delivered.result.cacheSize = Cardinality(Entries(sessionCache))
             /\ delivered.result.rateLimiterQueue =
                    Cardinality({p \in Procs : pc[p] = "queued"}))
    /\ [][delivered'.call = "getStatus" =>
             UNCHANGED <<sessionCache, recency, storage, rateLimiter, timer,
                         errorLogs, pc, text, local>>]_vars

\* C28 witness: a status taken with an error logged, an entry in the session
\* cache below its capacity, and a request waiting in the queue
C28_Witness ==
    /\ StatusDelivered
    /\ delivered.result.errorLogs # <<>>
    /\ delivered.result.cacheSize = 1
    /\ delivered.result.rateLimiterQueue = 1
    /\ sessionCache.maxSize > 1

\* C29: at most one timer set by processQueue is active at any time, and one
\* is active exactly while isProcessing is set: add() during a drain sets no
\* second timer, and a timer set after a drain has ended is again the only one.
C29_AtMostOneTimer ==
    /\ timer.set <= 1
    /\ timer.active <=> timer.set = 1
    /\ rateLimiter.isProcessing <=> timer.active

\* C29 witness: a timer is active that was set after an earlier one had been
\* cleared, a request having been added while the earlier one was running
C29_Witness ==
    /\ timer.set = 1
    /\ Len(rateLimiter.queue) = 1
    /\ \E i, j \in DOMAIN added : i < j /\ added[i].running /\ ~added[j].running

\* C30 as stated: the timer is never active in a state where the queue is
\* empty.
C30_TimerOnlyWhileQueueNonEmpty == timer.active => rateLimiter.queue # <<>>

\* the timer goes from inactive to active only in a step that puts a request
\* on the empty queue of an idle rate limiter
StartedByEnqueueOnIdle ==
    [][~timer.active /\ timer'.active
         => /\ ~rateLimiter.isProcessing
            /\ rateLimiter.queue = <<>>
            /\ Len(rateLimiter'.queue) = 1
            /\ timer'.due = now + interval]_vars

\* the timer goes from active to inactive only in a callback run that is due
\* and finds the queue empty, and that run resets isProcessing
StoppedByEmptyTick ==
    [][timer.active /\ ~timer'.active
         => /\ now >= timer.due
            /\ rateLimiter.queue = <<>>
            /\ rateLimiter'.queue = <<>>
            /\ ~rateLimiter'.isProcessing]_vars

\* C30 amended: the timer is started by an enqueue onto an idle rate limiter
\* and runs whenever the queue is non-empty; it is stopped by the first
\* callback run that finds the queue empty, one tick after the last request
\* was taken, and until that run it is active with the queue empty.
C30_TimerStopsOnEmptyTick ==
    /\ [](rateLimiter.queue # <<>> => timer.active)
    /\ [](timer.active <=> rateLimiter.isProcessing)
    /\ StartedByEnqueueOnIdle
    /\ StoppedByEmptyTick
    /\ (timer.active /\ rateLimiter.queue = <<>>)
          ~> (~timer.active \/ rateLimiter.queue # <<>>)

\* C30 witness: the timer has stopped after the queue was drained, every
\* request added having been invoked
C30_Witness ==
    /\ ~timer.active
    /\ ~rateLimiter.isProcessing
    /\ Len(invoked) >= 2
    /\ Len(invoked) = Len(added)

\* C32: a cache built with capacity N >= 1 never holds more than N entries,
\* whatever gets and sets were made, so the cacheSize that getStatus reports
\* never exceeds the capacity.
C32_SizeNeverExceedsCapacity ==
    /\ sessionCache.maxSize >= 1
    /\ Cardinality(MapKeys(sessionCache.cache)) <= sessionCache.maxSize
    /\ Len(sessionCache.cache) = Cardinality(MapKeys(sessionCache.cache))
    /\ getStatus.cacheSize <= sessionCache.maxSize

\* C32 witness: a set of an absent key into a cache that was full, of the
\* largest capacity, and the cache is full afterwards
C32_Witness ==
    /\ lruOp.op = "set"
    /\ ~lruOp.hit
    /\ sessionCache.maxSize = MaxCap
    /\ Len(lruOp.before) = MaxCap
    /\ getStatus.cacheSize = MaxCap

\* C33 as stated: a write of a term whose key the session cache holds already
\* (a write-back or a hydration while a call is in progress) adds no key, so
\* it removes none: a step of the worker in which the session cache gains no
\* key and is not rebuilt leaves its keys as they were.
C33_SetPresentKeepsOthers ==
    [][((\E p \in Procs : pc[p] # "idle")
          /\ MapKeys(sessionCache'.cache) \subseteq MapKeys(sessionCache.cache))
         => MapKeys(sessionCache'.cache) = MapKeys(sessionCache.cache)]_vars

\* C34: a queue that holds a request has its timer active, and again and
\* again every request added has been invoked: a request added to the empty
\* queue of a timer that has not stopped yet, or of one that has just
\* stopped, is invoked like any other.
C34_NothingStranded ==
    /\ [](rateLimiter.queue # <<>> => timer.active /\ timer.set = 1)
    /\ [][Len(rateLimiter'.queue) > Len(rateLimiter.queue)
            => timer'.active /\ timer'.due <= now + interval]_vars
    /\ []<>(rateLimiter.queue = <<>> /\ Len(invoked) = Len(added))

\* C34 witness: the second request was added to the empty queue of the timer
\* still running after the first was taken, the third right after that timer
\* had stopped, and all three have been invoked
C34_Witness ==
    /\ Len(invoked) = 3
    /\ added[2].lingering
    /\ ~added[3].running

\* C35 as stated: the removal that persistentCache.get makes for an expired
\* record it read never deletes a record for the same key that a write-back
\* has stored since: when the removal is served, a stored record that has
\* not expired stays in the store.
C35_FreshRecordSurvivesLazyExpiry ==
    [][\A p \in Procs :
          (/\ pc[p] = "premove_issued"
           /\ pc'[p] = "premove_ready"
           /\ storage[CacheKey(text[p])] # NoItem
           /\ ~Expired(storage[CacheKey(text[p])]))
          => storage'[CacheKey(text[p])] = storage[CacheKey(text[p])]]_vars

\* C40 as stated: while chrome.storage.local holds a Gemini key, no
\* rewriteTone call returns the failure 'Gemini API key is not configured.',
\* a call made right after the worker has started included.
C40_StoredKeyMeansConfigured ==
    (/\ delivered.call = "rewriteTone"
     /\ Truthy(localApiKeys)
     /\ ~KeyMissing(localApiKeys.gemini))
    => \/ delivered.result.success
       \/ delivered.result.error # <<"Gemini API key is not configured.">>

\* C39 as stated: fn is invoked at most once in any window of ms, never more
\* often than the wrapper was called, and one call of the wrapper gives
\* exactly one invocation of fn.
C39_ThrottleOncePerWindow ==
    /\ \A i \in 2..Len(throttled.runs) : throttled.runs[i].gap >= ThrottleMs
    /\ Len(throttled.runs) <= throttled.calls
    /\ throttled.calls = 1 => Len(throttled.runs) = 1

(***************************************************************************)
(* C31: while the state of the content script is AWAITING_REWRITE or       *)
(* REWRITE_RESULT_VISIBLE, a run of handleTextSelection, whatever is       *)
(* selected, leaves the state and the card as they are and sends no        *)
(* message to the worker.                                                  *)
(***************************************************************************)
Locked == {"AWAITING_REWRITE", "REWRITE_RESULT_VISIBLE"}

C31_SelectionIgnoredWhileLocked ==
    [][(page.currentState \in Locked /\ page'.selected)
        => /\ page'.currentState = page.currentState
           /\ page'.card = page.card
           /\ page'.sent = page.sent
           /\ page'.reveal = page.reveal]_vars

\* text was selected while the rewritten text was on display
C31_Witness ==
    /\ page.selected
    /\ page.currentState = "REWRITE_RESULT_VISIBLE"
    /\ page.card.display = "block"
    /\ page.card.view = "rewritten-text"

(***************************************************************************)
(* C36: when the response of a lookup that succeeded reaches the content   *)
(* script, whatever its source, the card shows the definition view of the  *)
(* data of the response and no longer the loading view.                    *)
(***************************************************************************)
C36_SuccessfulLookupShowsDefinition ==
    [][(/\ page.sent.type = "lookup"
        /\ page'.sent = NoMessage
        /\ delivered.call = "lookupMeaning"
        /\ delivered.result.success)
        => /\ page'.card.view = "definition"
           /\ page'.card.data = delivered.result.data]_vars

(***************************************************************************)
(* C37: once the card is hidden after it was dismissed by a click outside  *)
(* it, by its Close button or by an insert request, the state of the       *)
(* content script is IDLE, the state in which the next selection of text   *)
(* is handled; the content script is never left in REWRITE_RESULT_VISIBLE  *)
(* or AWAITING_REWRITE behind a hidden card.                               *)
(***************************************************************************)
C37_DismissedCardLeavesIdle ==
    (/\ page.card.dismissed \in {"outside", "close", "insert"}
     /\ page.card.display = "none")
        => page.currentState = "IDLE"

(***************************************************************************)
(* C38: the response of a rewrite that reaches the content script after    *)
(* the card was dismissed by a click outside it, the state IDLE and the    *)
(* card hidden, leaves the card hidden and the state IDLE, and sets no     *)
(* timeout that shows the card.                                            *)
(***************************************************************************)
C38_LateRewriteResponseIgnored ==
    [][(/\ page.card.dismissed = "outside"
        /\ page.card.display = "none"
        /\ page.currentState = "IDLE"
        /\ page.sent.type = "rewriteTone"
        /\ page'.sent = NoMessage)
        => /\ page'.card.display = "none"
           /\ page'.currentState = "IDLE"
           /\ page'.reveal = Null]_vars

====
